---------------------------- MODULE Spec2Model ----------------------------
(***************************************************************************)
(* Model of the comparison utilities of Sandrone (PavironicaJS):           *)
(*   jsonComparator.js  compare / sortJson / findDifferences / lineDiff    *)
(*   xmlComparator      compare / normalize / attrsKey / diff              *)
(*   csvComparator      compare / parseCSV / countRows                     *)
(*   jsonViewer.js      renderTree / expandAll / collapseAll, renderGraph  *)
(*   photo cutter       sliceImageFile                                     *)
(*   sqlUpdateGenerator.js  generateUpdateStatements                       *)
(* Each utility is a state machine of its own with its own variables and   *)
(* specification (Spec, SpecHeap, SpecGraph, SpecTree, SpecSlicer,         *)
(* SpecSql); in a behaviour of one the others stay idle.                   *)
(*                                                                         *)
(* JavaScript strings are sequences of one-character strings; CharCode     *)
(* gives the UTF-16 code unit of a character, which is what the string     *)
(* comparisons of the source (<, >, default Array.prototype.sort) use.     *)
(* JavaScript values are tagged tuples:                                    *)
(*   <<"null">>  <<"bool", b>>  <<"num", n>>  <<"str", chars>>             *)
(*   <<"arr", items>>  <<"obj", props, proto>>  <<"fn", name>>             *)
(*   <<"undef">>                                                           *)
(* props is the sequence of <<key, value>> own properties in property      *)
(* order, proto is the object's prototype (ObjectPrototype or a value).    *)
(***************************************************************************)
EXTENDS Integers, Sequences, FiniteSets

----------------------------------------------------------------------------
(* Characters and strings *)

CharCode(c) ==
  CASE c = "\t" -> 9   [] c = "\n" -> 10  [] c = "\r" -> 13  [] c = " " -> 32
    [] c = "\"" -> 34  [] c = "#" -> 35   [] c = "'" -> 39   [] c = "," -> 44
    [] c = "." -> 46   [] c = "/" -> 47
    [] c = "0" -> 48   [] c = "1" -> 49   [] c = "2" -> 50   [] c = "3" -> 51
    [] c = "4" -> 52   [] c = "5" -> 53   [] c = "6" -> 54   [] c = "7" -> 55
    [] c = "8" -> 56   [] c = "9" -> 57   [] c = ":" -> 58   [] c = ";" -> 59
    [] c = "=" -> 61
    [] c = "A" -> 65   [] c = "B" -> 66   [] c = "[" -> 91   [] c = "\\" -> 92
    [] c = "]" -> 93   [] c = "_" -> 95
    [] c = "a" -> 97   [] c = "b" -> 98   [] c = "c" -> 99   [] c = "e" -> 101
    [] c = "f" -> 102  [] c = "l" -> 108  [] c = "n" -> 110  [] c = "o" -> 111
    [] c = "p" -> 112  [] c = "r" -> 114  [] c = "s" -> 115  [] c = "t" -> 116
    [] c = "u" -> 117  [] c = "x" -> 120  [] c = "y" -> 121  [] c = "{" -> 123
    [] c = "|" -> 124  [] c = "}" -> 125

DigitChars == <<"0", "1", "2", "3", "4", "5", "6", "7", "8", "9">>

IsDigit(c) == CharCode(c) >= 48 /\ CharCode(c) <= 57

DigitVal(c) == CharCode(c) - 48

\* Number -> decimal string, as String(n) / JSON.stringify(n) / `${i}` for a
\* non-negative integer.
RECURSIVE NumToStr(_)
NumToStr(n) ==
  IF n < 10 THEN <<DigitChars[n + 1]>>
  ELSE NumToStr(n \div 10) \o <<DigitChars[(n % 10) + 1]>>

\* a < b on JavaScript strings: lexicographic by code unit.
RECURSIVE StrLessFrom(_, _, _)
StrLessFrom(a, b, i) ==
  IF i > Len(a) THEN i <= Len(b)
  ELSE IF i > Len(b) THEN FALSE
  ELSE IF a[i] # b[i] THEN CharCode(a[i]) < CharCode(b[i])
  ELSE StrLessFrom(a, b, i + 1)

StrLess(a, b) == StrLessFrom(a, b, 1)

RECURSIVE Join(_, _)
Join(strs, sep) ==
  IF strs = <<>> THEN <<>>
  ELSE IF Len(strs) = 1 THEN strs[1]
  ELSE strs[1] \o sep \o Join(Tail(strs), sep)

\* String.prototype.trim over the white space of the alphabet.
IsSpace(c) == c \in {" ", "\t", "\n", "\r"}

RECURSIVE TrimStart(_)
TrimStart(s) == IF s # <<>> /\ IsSpace(Head(s)) THEN TrimStart(Tail(s)) ELSE s

RECURSIVE TrimEnd(_)
TrimEnd(s) ==
  IF s # <<>> /\ IsSpace(s[Len(s)]) THEN TrimEnd(SubSeq(s, 1, Len(s) - 1)) ELSE s

\* A mutation of Trim: the white space is kept.
TrimNothing(s) == s

Trim(s) == TrimEnd(TrimStart(s))

----------------------------------------------------------------------------
(* Array.prototype.sort: a stable sort.  items is a sequence of             *)
(* <<key, value>>; the comparator of every call site in the source orders   *)
(* by a string key with <, so the result is the values in ascending key     *)
(* order, equal keys keeping their input order.                             *)

RECURSIVE InsertByKey(_, _)
InsertByKey(sorted, item) ==
  IF sorted = <<>> THEN <<item>>
  ELSE IF StrLess(item[1], sorted[Len(sorted)][1])
       THEN Append(InsertByKey(SubSeq(sorted, 1, Len(sorted) - 1), item),
                   sorted[Len(sorted)])
       ELSE Append(sorted, item)

RECURSIVE StableSortFrom(_, _, _)
StableSortFrom(items, i, acc) ==
  IF i > Len(items) THEN acc
  ELSE StableSortFrom(items, i + 1, InsertByKey(acc, items[i]))

StableSortByKey(items) ==
  LET s == StableSortFrom(items, 1, <<>>)
  IN  [i \in 1..Len(s) |-> s[i][2]]

----------------------------------------------------------------------------
(* JavaScript values *)

Null == <<"null">>
Undefined == <<"undef">>
Bool(b) == <<"bool", b>>
Num(n) == <<"num", n>>
Str(s) == <<"str", s>>
Arr(items) == <<"arr", items>>
Fn(name) == <<"fn", name>>
ObjectPrototype == <<"ObjectPrototype">>
Obj(props, proto) == <<"obj", props, proto>>
EmptyObject == Obj(<<>>, ObjectPrototype)

Kind(v) == v[1]
IsArray(v) == Kind(v) = "arr"
\* A mutation of isObj: typeof compared with a name it never returns.
isObjNever(v) == FALSE

\* isObj of findDifferences: v && typeof v === 'object' && !Array.isArray(v)
isObj(v) == Kind(v) = "obj"
\* typeof v === 'object' (null included) as the __proto__ setter tests it
IsObjectOrNull(v) == Kind(v) \in {"obj", "arr", "null"}

ProtoKey == <<"_", "_", "p", "r", "o", "t", "o", "_", "_">>

ConstructorKey == <<"c", "o", "n", "s", "t", "r", "u", "c", "t", "o", "r">>

\* The names of Object.prototype that the alphabet can spell, __proto__
\* apart, each with the name of the function it holds.
ObjectPrototypeKeys == { ConstructorKey }

ObjectPrototypeValue(k) == <<"fn", <<"O", "b", "j", "e", "c", "t">>>>

\* The names of Array.prototype that the alphabet can spell.
ArrayPrototypeKeys ==
  { <<"a", "t">>, <<"p", "o", "p">>, <<"s", "o", "r", "t">>,
    <<"f", "l", "a", "t">>, <<"c", "o", "n", "c", "a", "t">>, ConstructorKey }

ArrayPrototypeValue(k) ==
  <<"fn", IF k = ConstructorKey THEN <<"A", "r", "r", "a", "y">> ELSE k>>

\* A canonical array index: "0" or digits without a leading zero.
IsArrayIndex(k) ==
  /\ k # <<>>
  /\ \A i \in 1..Len(k) : IsDigit(k[i])
  /\ (Len(k) > 1 => k[1] # "0")

RECURSIVE StrToNum(_)
StrToNum(k) ==
  IF k = <<>> THEN 0
  ELSE 10 * StrToNum(SubSeq(k, 1, Len(k) - 1)) + DigitVal(k[Len(k)])

OwnKeys(o) == [i \in 1..Len(o[2]) |-> o[2][i][1]]

HasOwn(o, k) == \E i \in 1..Len(o[2]) : o[2][i][1] = k

OwnValue(o, k) == o[2][CHOOSE i \in 1..Len(o[2]) : o[2][i][1] = k][2]

\* Property order of an ordinary object: array indices ascending, then the
\* other keys in insertion order.
KeyBefore(k1, k2) ==
  /\ IsArrayIndex(k1)
  /\ (IsArrayIndex(k2) => StrToNum(k1) < StrToNum(k2))

RECURSIVE InsertProp(_, _)
InsertProp(props, p) ==
  IF props # <<>> /\ KeyBefore(p[1], props[Len(props)][1])
  THEN Append(InsertProp(SubSeq(props, 1, Len(props) - 1), p), props[Len(props)])
  ELSE Append(props, p)

\* CreateDataProperty(o, k, v): an own property, whatever its name.
DefineOwn(o, k, v) ==
  IF HasOwn(o, k)
  THEN Obj([i \in 1..Len(o[2]) |->
              IF o[2][i][1] = k THEN <<k, v>> ELSE o[2][i]], o[3])
  ELSE Obj(InsertProp(o[2], <<k, v>>), o[3])

\* o[k] = v on an ordinary object whose prototype chain ends in
\* Object.prototype: the key __proto__ reaches the accessor of
\* Object.prototype, which replaces the prototype when v is an object or
\* null and does nothing otherwise; it never creates an own property.
SetProp(o, k, v) ==
  IF k = ProtoKey /\ ~HasOwn(o, k)
  THEN IF IsObjectOrNull(v) THEN Obj(o[2], v) ELSE o
  ELSE DefineOwn(o, k, v)

\* k in v
RECURSIVE HasProperty(_, _)
HasProperty(v, k) ==
  CASE Kind(v) = "obj" -> HasOwn(v, k) \/ HasProperty(v[3], k)
    [] Kind(v) = "arr" ->
         \/ (IsArrayIndex(k) /\ StrToNum(k) < Len(v[2]))
         \/ k \in ArrayPrototypeKeys
         \/ k = ProtoKey
    [] Kind(v) = "ObjectPrototype" -> k = ProtoKey \/ k \in ObjectPrototypeKeys
    [] OTHER -> FALSE

\* v[k]
RECURSIVE GetProp(_, _)
GetProp(v, k) ==
  CASE Kind(v) = "obj" ->
         IF HasOwn(v, k) THEN OwnValue(v, k)
         ELSE IF k = ProtoKey THEN v[3]
         ELSE GetProp(v[3], k)
    [] Kind(v) = "arr" ->
         IF IsArrayIndex(k) /\ StrToNum(k) < Len(v[2]) THEN v[2][StrToNum(k) + 1]
         ELSE IF k \in ArrayPrototypeKeys THEN ArrayPrototypeValue(k)
         ELSE IF k = ProtoKey THEN <<"ArrayPrototype">>
         ELSE Undefined
    [] Kind(v) = "ObjectPrototype" ->
         IF k \in ObjectPrototypeKeys THEN ObjectPrototypeValue(k)
         ELSE IF k = ProtoKey THEN Null
         ELSE Undefined
    [] OTHER -> Undefined

----------------------------------------------------------------------------
(* JSON.parse and JSON.stringify over the alphabet: white space, [ ] { }    *)
(* , : non-negative integers, strings, null / true / false.  The escapes    *)
(* \b \f and \u name characters outside the alphabet and are not modelled.  *)

ParseFail == [ok |-> FALSE, val |-> Undefined, pos |-> 0]
ParseOk(v, p) == [ok |-> TRUE, val |-> v, pos |-> p]

IsJsonWs(c) == c \in {" ", "\t", "\n", "\r"}

RECURSIVE SkipWs(_, _)
SkipWs(t, i) == IF i <= Len(t) /\ IsJsonWs(t[i]) THEN SkipWs(t, i + 1) ELSE i

At(t, i) == IF i >= 1 /\ i <= Len(t) THEN t[i] ELSE "EOF"

Matches(t, i, word) ==
  /\ i + Len(word) - 1 <= Len(t)
  /\ SubSeq(t, i, i + Len(word) - 1) = word

\* The characters of a string literal, from the one after the opening quote.
RECURSIVE ParseStringFrom(_, _, _)
ParseStringFrom(t, i, acc) ==
  IF i > Len(t) THEN ParseFail
  ELSE IF t[i] = "\"" THEN ParseOk(acc, i + 1)
  ELSE IF t[i] = "\\" THEN
    LET e == At(t, i + 1)
    IN  IF e \in {"\"", "\\", "/"} THEN ParseStringFrom(t, i + 2, Append(acc, e))
        ELSE IF e = "n" THEN ParseStringFrom(t, i + 2, Append(acc, "\n"))
        ELSE IF e = "r" THEN ParseStringFrom(t, i + 2, Append(acc, "\r"))
        ELSE IF e = "t" THEN ParseStringFrom(t, i + 2, Append(acc, "\t"))
        ELSE ParseFail
  ELSE IF CharCode(t[i]) < 32 THEN ParseFail
  ELSE ParseStringFrom(t, i + 1, Append(acc, t[i]))

RECURSIVE ParseDigits(_, _, _)
ParseDigits(t, i, n) ==
  IF i <= Len(t) /\ IsDigit(t[i])
  THEN ParseDigits(t, i + 1, 10 * n + DigitVal(t[i]))
  ELSE ParseOk(Num(n), i)

ParseNumber(t, i) ==
  IF t[i] = "0" THEN ParseOk(Num(0), i + 1) ELSE ParseDigits(t, i, 0)

RECURSIVE ParseValue(_, _)
RECURSIVE ParseElements(_, _, _)
RECURSIVE ParseMembers(_, _, _)

\* A value starting at i (white space already skipped).
ParseValue(t, i) ==
  LET c == At(t, i)
  IN  CASE c = "[" ->
             LET j == SkipWs(t, i + 1)
             IN  IF At(t, j) = "]" THEN ParseOk(Arr(<<>>), j + 1)
                 ELSE ParseElements(t, j, <<>>)
        [] c = "{" ->
             LET j == SkipWs(t, i + 1)
             IN  IF At(t, j) = "}" THEN ParseOk(EmptyObject, j + 1)
                 ELSE ParseMembers(t, j, EmptyObject)
        [] c = "\"" ->
             LET r == ParseStringFrom(t, i + 1, <<>>)
             IN  IF r.ok THEN ParseOk(Str(r.val), r.pos) ELSE ParseFail
        [] c = "n" ->
             IF Matches(t, i, <<"n", "u", "l", "l">>) THEN ParseOk(Null, i + 4)
             ELSE ParseFail
        [] c = "t" ->
             IF Matches(t, i, <<"t", "r", "u", "e">>) THEN ParseOk(Bool(TRUE), i + 4)
             ELSE ParseFail
        [] c = "f" ->
             IF Matches(t, i, <<"f", "a", "l", "s", "e">>)
             THEN ParseOk(Bool(FALSE), i + 5)
             ELSE ParseFail
        [] c # "EOF" /\ IsDigit(c) -> ParseNumber(t, i)
        [] OTHER -> ParseFail

\* The elements of an array, from the first character of an element.
ParseElements(t, i, acc) ==
  LET r == ParseValue(t, i)
  IN  IF ~r.ok THEN ParseFail
      ELSE LET j == SkipWs(t, r.pos)
               items == Append(acc, r.val)
           IN  IF At(t, j) = "," THEN ParseElements(t, SkipWs(t, j + 1), items)
               ELSE IF At(t, j) = "]" THEN ParseOk(Arr(items), j + 1)
               ELSE ParseFail

\* The members of an object, from the opening quote of a key.  A member is
\* created with CreateDataProperty: a repeated key keeps its place and takes
\* the last value, and __proto__ is an own property like any other.
ParseMembers(t, i, acc) ==
  IF At(t, i) # "\"" THEN ParseFail
  ELSE
    LET k == ParseStringFrom(t, i + 1, <<>>)
    IN  IF ~k.ok THEN ParseFail
        ELSE
          LET c == SkipWs(t, k.pos)
          IN  IF At(t, c) # ":" THEN ParseFail
              ELSE
                LET r == ParseValue(t, SkipWs(t, c + 1))
                IN  IF ~r.ok THEN ParseFail
                    ELSE
                      LET j == SkipWs(t, r.pos)
                          o == DefineOwn(acc, k.val, r.val)
                      IN  IF At(t, j) = "," THEN ParseMembers(t, SkipWs(t, j + 1), o)
                          ELSE IF At(t, j) = "}" THEN ParseOk(o, j + 1)
                          ELSE ParseFail

\* JSON.parse(text): [ok |-> TRUE, val |-> value] or a SyntaxError.
JSONparse(t) ==
  LET r == ParseValue(t, SkipWs(t, 1))
  IN  IF r.ok /\ SkipWs(t, r.pos) = Len(t) + 1
      THEN [ok |-> TRUE, val |-> r.val]
      ELSE [ok |-> FALSE, val |-> Undefined]

\* QuoteJSONString
RECURSIVE QuoteChars(_)
QuoteChars(s) ==
  IF s = <<>> THEN <<>>
  ELSE LET c == Head(s)
           e == CASE c = "\"" -> <<"\\", "\"">>
                  [] c = "\\" -> <<"\\", "\\">>
                  [] c = "\n" -> <<"\\", "n">>
                  [] c = "\r" -> <<"\\", "r">>
                  [] c = "\t" -> <<"\\", "t">>
                  [] OTHER -> <<c>>
       IN  e \o QuoteChars(Tail(s))

Quote(s) == <<"\"">> \o QuoteChars(s) \o <<"\"">>

\* JSON.stringify(v) without indentation: own properties in property order;
\* a function or undefined is null inside an array and omitted in an object.
RECURSIVE JSONstringify(_)
JSONstringify(v) ==
  CASE Kind(v) = "null" -> <<"n", "u", "l", "l">>
    [] Kind(v) = "bool" ->
         IF v[2] THEN <<"t", "r", "u", "e">> ELSE <<"f", "a", "l", "s", "e">>
    [] Kind(v) = "num" -> NumToStr(v[2])
    [] Kind(v) = "str" -> Quote(v[2])
    [] Kind(v) = "arr" ->
         <<"[">> \o Join([i \in 1..Len(v[2]) |->
                            IF Kind(v[2][i]) \in {"fn", "undef"}
                            THEN <<"n", "u", "l", "l">>
                            ELSE JSONstringify(v[2][i])], <<",">>) \o <<"]">>
    [] Kind(v) = "obj" ->
         LET kept == SelectSeq(v[2], LAMBDA p : Kind(p[2]) \notin {"fn", "undef"})
         IN  <<"{">> \o Join([i \in 1..Len(kept) |->
                                Quote(kept[i][1]) \o <<":">> \o JSONstringify(kept[i][2])],
                             <<",">>) \o <<"}">>
    [] OTHER -> <<>>

----------------------------------------------------------------------------
(* String(v), as the template literals and show() of the source apply it.   *)
(* The result is <<"ok", chars>> or <<"throw">> (a TypeError: an object     *)
(* whose prototype chain holds no toString).                                *)

Min(a, b) == IF a < b THEN a ELSE b
Max(a, b) == IF a > b THEN a ELSE b

ObjectObjectText ==
  <<"[", "o", "b", "j", "e", "c", "t", " ", "O", "b", "j", "e", "c", "t", "]">>

\* The first value on the prototype chain of an object that is not an
\* ordinary object: ObjectPrototype, an array, or null.
RECURSIVE ChainEnd(_)
ChainEnd(o) == IF Kind(o) = "obj" THEN ChainEnd(o[3]) ELSE o

RECURSIVE JsString(_)
RECURSIVE JoinElements(_, _, _, _)

\* Array.prototype.join(",") on `o` read through indices 0..len-1.
JoinElements(o, i, len, acc) ==
  IF i >= len THEN <<"ok", acc>>
  ELSE
    LET e == GetProp(o, NumToStr(i))
        sep == IF i = 0 THEN <<>> ELSE <<",">>
    IN  IF Kind(e) \in {"null", "undef"} THEN JoinElements(o, i + 1, len, acc \o sep)
        ELSE LET r == JsString(e)
             IN  IF r[1] = "throw" THEN r
                 ELSE JoinElements(o, i + 1, len, acc \o sep \o r[2])

JsString(v) ==
  CASE Kind(v) = "null" -> <<"ok", <<"n", "u", "l", "l">>>>
    [] Kind(v) = "undef" -> <<"ok", <<"u", "n", "d", "e", "f", "i", "n", "e", "d">>>>
    [] Kind(v) = "bool" ->
         <<"ok", IF v[2] THEN <<"t", "r", "u", "e">> ELSE <<"f", "a", "l", "s", "e">>>>
    [] Kind(v) = "num" -> <<"ok", NumToStr(v[2])>>
    [] Kind(v) = "str" -> <<"ok", v[2]>>
    [] Kind(v) = "arr" -> JoinElements(v, 0, Len(v[2]), <<>>)
    [] Kind(v) = "fn" ->
         <<"ok", <<"f", "u", "n", "c", "t", "i", "o", "n", " ">> \o v[2]
                 \o <<"(", ")", " ", "{", " ", "[", "n", "a", "t", "i", "v", "e", " ",
                      "c", "o", "d", "e", "]", " ", "}">>>>
    [] Kind(v) = "obj" ->
         LET e == ChainEnd(v)
         IN  IF Kind(e) = "ObjectPrototype" THEN <<"ok", ObjectObjectText>>
             ELSE IF Kind(e) = "arr" THEN JoinElements(v, 0, Len(e[2]), <<>>)
             ELSE <<"throw">>
    [] Kind(v) = "ObjectPrototype" -> <<"ok", ObjectObjectText>>
    [] OTHER -> <<"throw">>

----------------------------------------------------------------------------
(* jsonComparator.js *)

\* A mutation of SortedKeys: the keys are left in property order.
UnsortedKeys(keys) == keys

\* Object.keys(obj).sort()
SortedKeys(keys) == StableSortByKey([i \in 1..Len(keys) |-> <<keys[i], keys[i]>>])

RECURSIVE sortJson(_, _)
RECURSIVE SortJsonProps(_, _, _, _, _)

\* for (const k of Object.keys(obj).sort()) out[k] = sortJson(obj[k], mode)
SortJsonProps(obj, keys, i, out, mode) ==
  IF i > Len(keys) THEN out
  ELSE SortJsonProps(obj, keys, i + 1,
                     SetProp(out, keys[i], sortJson(GetProp(obj, keys[i]), mode)),
                     mode)

sortJson(obj, mode) ==
  IF Kind(obj) \in {"null", "undef"} THEN obj
  ELSE IF IsArray(obj) THEN
    LET norm == [i \in 1..Len(obj[2]) |-> sortJson(obj[2][i], mode)]
    IN  IF mode = "full"
        THEN Arr(StableSortByKey([i \in 1..Len(norm) |->
                                    <<JSONstringify(norm[i]), norm[i]>>]))
        ELSE Arr(norm)
  ELSE IF Kind(obj) = "obj" THEN
    SortJsonProps(obj, SortedKeys(OwnKeys(obj)), 1, EmptyObject, mode)
  ELSE obj

\* A mutation of ItemOnlyIn: the record names the other side.
ItemOnlyInOther(side, path) ==
  <<"Item only in", IF side = "first" THEN "second" ELSE "first", path>>

\* A diff record the generator yields.
ItemOnlyIn(side, path) == <<"Item only in", side, path>>
KeyOnlyIn(side, path) == <<"Key only in", side, path>>
DiffAt(path, left, right) == <<"Diff at", path, left, right>>
ThrowTypeError == <<"throw TypeError">>

Threw(recs) == recs # <<>> /\ recs[Len(recs)] = ThrowTypeError

\* A mutation of Then: what the first part yielded is yielded twice.
ThenRepeated(first, rest) == IF Threw(first) THEN first ELSE first \o first \o rest

\* What a generator has yielded when it runs `first` and then `rest`: a throw
\* ends it.
Then(first, rest) == IF Threw(first) THEN first ELSE first \o rest

RECURSIVE ThenAll(_, _)
ThenAll(parts, i) ==
  IF i > Len(parts) THEN <<>> ELSE Then(parts[i], ThenAll(parts, i + 1))

\* A mutation of StrictEquals: == on scalars, which compares a string and a
\* value of another type by their text.
LooseEquals(o1, o2) ==
  /\ Kind(o1) \in {"null", "undef", "bool", "num", "str", "fn"}
  /\ Kind(o2) \in {"null", "undef", "bool", "num", "str", "fn"}
  /\ JsString(o1) = JsString(o2)

\* o1 === o2 where the two values come from different parses: objects and
\* arrays are never the same reference.
StrictEquals(o1, o2) ==
  /\ Kind(o1) = Kind(o2)
  /\ Kind(o1) \in {"null", "undef", "bool", "num", "str", "fn"}
  /\ o1 = o2

\* show(v) = typeof v === 'string' ? JSON.stringify(v) : String(v)
show(v) == IF Kind(v) = "str" THEN <<"ok", Quote(v[2])>> ELSE JsString(v)

\* new Set([...Object.keys(o1), ...Object.keys(o2)]), spread and sorted
UnionKeys(o1, o2) ==
  LET k1 == OwnKeys(o1)
      k2 == SelectSeq(OwnKeys(o2), LAMBDA k : ~HasOwn(o1, k))
  IN  SortedKeys(k1 \o k2)

RECURSIVE findDifferences(_, _, _)
findDifferences(o1, o2, path) ==
  IF IsArray(o1) /\ IsArray(o2) THEN
    LET l1 == Len(o1[2])
        l2 == Len(o2[2])
        n == Min(l1, l2)
        common == ThenAll([i \in 1..n |->
                    findDifferences(o1[2][i], o2[2][i],
                                    path \o <<"[">> \o NumToStr(i - 1) \o <<"]">>)], 1)
        extra ==
          IF l1 > l2
          THEN [j \in 1..(l1 - l2) |->
                  ItemOnlyIn("first", path \o <<"[">> \o NumToStr(l2 + j - 1) \o <<"]">>)]
          ELSE IF l2 > l1
          THEN [j \in 1..(l2 - l1) |->
                  ItemOnlyIn("second", path \o <<"[">> \o NumToStr(l1 + j - 1) \o <<"]">>)]
          ELSE <<>>
    IN  Then(common, extra)
  ELSE IF isObj(o1) /\ isObj(o2) THEN
    LET keys == UnionKeys(o1, o2)
    IN  ThenAll([i \in 1..Len(keys) |->
          LET k == keys[i]
              p == IF path # <<>> THEN path \o <<".">> \o k ELSE k
          IN  IF ~HasProperty(o1, k) THEN <<KeyOnlyIn("second", p)>>
              ELSE IF ~HasProperty(o2, k) THEN <<KeyOnlyIn("first", p)>>
              ELSE findDifferences(GetProp(o1, k), GetProp(o2, k), p)], 1)
  ELSE IF ~StrictEquals(o1, o2) THEN
    LET s1 == show(o1)
        s2 == show(o2)
    IN  IF s1[1] = "throw" \/ s2[1] = "throw" THEN <<ThrowTypeError>>
        ELSE <<DiffAt(path, s1[2], s2[2])>>
  ELSE <<>>

\* text.split(/\r?\n/)
RECURSIVE SplitLinesFrom(_, _, _, _)
SplitLinesFrom(t, i, line, acc) ==
  IF i > Len(t) THEN Append(acc, line)
  ELSE IF t[i] = "\n" THEN
    SplitLinesFrom(t, i + 1, <<>>,
      Append(acc, IF line # <<>> /\ line[Len(line)] = "\r"
                  THEN SubSeq(line, 1, Len(line) - 1) ELSE line))
  ELSE SplitLinesFrom(t, i + 1, Append(line, t[i]), acc)

SplitLines(t) == SplitLinesFrom(t, 1, <<>>, <<>>)

\* A mutation of Minus: the removed line is marked as an added one.
MinusAsPlus(line) == <<"+", line>>

Minus(line) == <<"-", line>>
Plus(line) == <<"+", line>>

lineDiff(aText, bText) ==
  LET a == SplitLines(aText)
      b == SplitLines(bText)
      max == Max(Len(a), Len(b))
  IN  ThenAll([i \in 1..max |->
        IF i > Len(a) THEN <<Plus(b[i])>>
        ELSE IF i > Len(b) THEN <<Minus(a[i])>>
        ELSE IF a[i] # b[i] THEN <<Minus(a[i]), Plus(b[i])>>
        ELSE <<>>], 1)

\* String.prototype.toLowerCase on the mode names of the model.
toLowerCase(m) ==
  CASE m = "FULL" -> "full" [] m = "Exact" -> "exact" [] m = "Ordered" -> "ordered"
    [] OTHER -> m

\* Lines 88-89: opts.mode (or "absent") -> exact | full | ordered
ResolveMode(optsMode) ==
  LET m == toLowerCase(IF optsMode \in {"absent", ""} THEN "full" ELSE optsMode)
  IN  IF m \in {"order", "ordered", "arrays", "preserve"} THEN "ordered"
      ELSE IF m = "exact" THEN "exact"
      ELSE IF "full" = m THEN "full"
      ELSE "ordered"

Returned(recs) == [status |-> "ok", out |-> recs, error |-> "none"]
Thrown(what) == [status |-> "throw", out |-> <<>>, error |-> what]

\* A mutation of jsonCompare: the second text is parsed and reported first.
jsonCompareSecondFirst(text1, text2, optsMode) ==
  LET mode == ResolveMode(optsMode)
  IN  IF mode = "exact" THEN
        IF text1 = text2 THEN Returned(<<>>) ELSE Returned(lineDiff(text1, text2))
      ELSE
        LET j1 == JSONparse(text1)
            j2 == JSONparse(text2)
        IN  IF ~j2.ok THEN Thrown("File B is not valid JSON")
            ELSE IF ~j1.ok THEN Thrown("File A is not valid JSON")
            ELSE
              LET s1 == sortJson(j1.val, IF mode = "full" THEN "full" ELSE "ordered")
                  s2 == sortJson(j2.val, IF mode = "full" THEN "full" ELSE "ordered")
                  recs == findDifferences(s1, s2, <<>>)
              IN  IF Threw(recs) THEN Thrown("TypeError") ELSE Returned(recs)

jsonCompare(text1, text2, optsMode) ==
  LET mode == ResolveMode(optsMode)
  IN  IF mode = "exact" THEN
        IF text1 = text2 THEN Returned(<<>>) ELSE Returned(lineDiff(text1, text2))
      ELSE
        LET j1 == JSONparse(text1)
            j2 == JSONparse(text2)
        IN  IF ~j1.ok THEN Thrown("File A is not valid JSON")
            ELSE IF ~j2.ok THEN Thrown("File B is not valid JSON")
            ELSE
              LET s1 == sortJson(j1.val, IF mode = "full" THEN "full" ELSE "ordered")
                  s2 == sortJson(j2.val, IF mode = "full" THEN "full" ELSE "ordered")
                  recs == findDifferences(s1, s2, <<>>)
              IN  IF Threw(recs) THEN Thrown("TypeError") ELSE Returned(recs)

----------------------------------------------------------------------------
(* sortJson on a heap.  Arrays and objects are cells of a heap, a sequence  *)
(* of Arr(items) and Obj(props, proto) whose items, member values and       *)
(* prototypes are scalars or references <<"ref", address>>; what a call     *)
(* allocates is appended, what it assigns replaces a cell.                  *)

Ref(a) == <<"ref", a>>

\* A new array or object: the heap with the cell appended, and its reference.
Alloc(h, cell) == [heap |-> Append(h, cell), val |-> Ref(Len(h) + 1)]

RECURSIVE Load(_, _)
RECURSIVE LoadAll(_, _, _)

\* The value JSON.parse builds, stored on the heap children first.
Load(h, v) ==
  IF Kind(v) = "arr" THEN
    LET r == LoadAll(h, v[2], <<>>) IN Alloc(r.heap, Arr(r.vals))
  ELSE IF Kind(v) = "obj" THEN
    LET r == LoadAll(h, [i \in 1..Len(v[2]) |-> v[2][i][2]], <<>>)
    IN  Alloc(r.heap, Obj([i \in 1..Len(v[2]) |-> <<v[2][i][1], r.vals[i]>>], v[3]))
  ELSE [heap |-> h, val |-> v]

LoadAll(h, vs, acc) ==
  IF vs = <<>> THEN [heap |-> h, vals |-> acc]
  ELSE LET r == Load(h, Head(vs)) IN LoadAll(r.heap, Tail(vs), Append(acc, r.val))

\* The value a reference stands for, as a tree.
RECURSIVE Deref(_, _)
Deref(h, x) ==
  IF Kind(x) # "ref" THEN x
  ELSE LET c == h[x[2]]
       IN  IF Kind(c) = "arr" THEN Arr([i \in 1..Len(c[2]) |-> Deref(h, c[2][i])])
           ELSE Obj([i \in 1..Len(c[2]) |-> <<c[2][i][1], Deref(h, c[2][i][2])>>],
                    Deref(h, c[3]))

\* out[k] = v on the cell of an ordinary object (see SetProp).
SetPropH(cell, k, v) ==
  IF k = ProtoKey /\ ~HasOwn(cell, k)
  THEN IF Kind(v) \in {"ref", "null"} THEN Obj(cell[2], v) ELSE cell
  ELSE DefineOwn(cell, k, v)

\* A mutation of ArrayMap: the results are stored back into the array that
\* is mapped.
ArrayMapInPlace(h, src, vals) == [heap |-> [h EXCEPT ![src[2]] = Arr(vals)], val |-> src]

\* obj.map(...): a new array holding the results.
ArrayMap(h, src, vals) == Alloc(h, Arr(vals))

\* array.sort(by JSON.stringify): the cell of `ref` is reordered in place.
SortInPlace(h, ref) ==
  LET items == h[ref[2]][2]
  IN  [h EXCEPT ![ref[2]] =
         Arr(StableSortByKey([i \in 1..Len(items) |->
                                <<JSONstringify(Deref(h, items[i])), items[i]>>]))]

RECURSIVE sortJsonH(_, _, _)
RECURSIVE SortJsonAllH(_, _, _, _)
RECURSIVE SortJsonPropsH(_, _, _, _, _, _)

\* x => sortJson(x, mode) over the elements, in index order.
SortJsonAllH(h, xs, acc, mode) ==
  IF xs = <<>> THEN [heap |-> h, vals |-> acc]
  ELSE LET r == sortJsonH(h, Head(xs), mode)
       IN  SortJsonAllH(r.heap, Tail(xs), Append(acc, r.val), mode)

\* for (const k of Object.keys(obj).sort()) out[k] = sortJson(obj[k], mode)
SortJsonPropsH(h, obj, keys, i, out, mode) ==
  IF i > Len(keys) THEN [heap |-> h, val |-> out]
  ELSE LET r == sortJsonH(h, OwnValue(h[obj[2]], keys[i]), mode)
       IN  SortJsonPropsH([r.heap EXCEPT ![out[2]] = SetPropH(@, keys[i], r.val)],
                          obj, keys, i + 1, out, mode)

sortJsonH(h, obj, mode) ==
  IF Kind(obj) # "ref" THEN [heap |-> h, val |-> obj]
  ELSE IF IsArray(h[obj[2]]) THEN
    LET m == SortJsonAllH(h, h[obj[2]][2], <<>>, mode)
        norm == ArrayMap(m.heap, obj, m.vals)
    IN  IF mode = "full"
        THEN LET copy == Alloc(norm.heap, Arr(norm.heap[norm.val[2]][2]))
             IN  [heap |-> SortInPlace(copy.heap, copy.val), val |-> copy.val]
        ELSE norm
  ELSE
    LET out == Alloc(h, EmptyObject)
    IN  SortJsonPropsH(out.heap, obj, SortedKeys(OwnKeys(h[obj[2]])), 1, out.val, mode)

----------------------------------------------------------------------------
(* xmlComparator.  The DOM that DOMParser returns is the input:             *)
(*   <<"element", tagName, attributes, childNodes>>  attributes is the      *)
(*        sequence of <<name, value>> in document order, names unique       *)
(*   <<"text", nodeValue>>     <<"comment", data>>                          *)
(* and <<"parsererror">> stands for a text DOMParser rejects.               *)
(* A normalized node is Str(text) or <<"elem", tag, attrib, children>>,     *)
(* attrib being the object attrsMap builds.                                 *)

Element(tag, attributes, childNodes) == <<"element", tag, attributes, childNodes>>
TextNode(value) == <<"text", value>>
CommentNode(data) == <<"comment", data>>
ParserError == <<"parsererror">>

Elem(tag, attrib, children) == <<"elem", tag, attrib, children>>

\* The name querySelector('parsererror') selects.
ParserErrorTag == <<"p", "a", "r", "s", "e", "r", "e", "r", "r", "o", "r">>

\* doc.querySelector('parsererror') finds an element: the node or one of its
\* descendants is an element of that name.
RECURSIVE HasParserErrorElement(_)
HasParserErrorElement(node) ==
  /\ Kind(node) = "element"
  /\ \/ node[2] = ParserErrorTag
     \/ \E i \in 1..Len(node[4]) : HasParserErrorElement(node[4][i])

\* Lines 4-13: the document the parser built for a text it rejects holds a
\* parsererror element; so may the document of a well-formed text.
parseXml(doc) ==
  IF doc = ParserError \/ HasParserErrorElement(doc)
  THEN [ok |-> FALSE, root |-> doc]
  ELSE [ok |-> TRUE, root |-> doc]

\* for (const a of node.attributes) out[a.name] = a.value
RECURSIVE AttrsMapFrom(_, _, _)
AttrsMapFrom(attributes, i, out) ==
  IF i > Len(attributes) THEN out
  ELSE AttrsMapFrom(attributes, i + 1,
                    SetProp(out, attributes[i][1], Str(attributes[i][2])))

attrsMap(node) == AttrsMapFrom(node[3], 1, EmptyObject)

attrsKey(attrs) ==
  LET keys == SortedKeys(OwnKeys(attrs))
  IN  Join([i \in 1..Len(keys) |->
              keys[i] \o <<"=">> \o JSONstringify(GetProp(attrs, keys[i]))], <<"|">>)

\* The sort key of a normalized child (lines 44-45).
ChildSortKey(a) ==
  IF Kind(a) = "str" THEN <<"#", "t", "e", "x", "t", ":">> \o a[2]
  ELSE a[2] \o <<":">> \o attrsKey(a[3])

EmptyText == Str(<<>>)

RECURSIVE normalize(_, _)
normalize(node, orderSensitive) ==
  IF Kind(node) = "text" THEN Str(Trim(node[2]))
  ELSE IF Kind(node) # "element" THEN EmptyText
  ELSE
    LET all == [i \in 1..Len(node[4]) |-> normalize(node[4][i], orderSensitive)]
        children == SelectSeq(all, LAMBDA n : n # EmptyText)
    IN  Elem(node[2], attrsMap(node),
             IF ~orderSensitive
             THEN StableSortByKey([i \in 1..Len(children) |->
                                     <<ChildSortKey(children[i]), children[i]>>])
             ELSE children)

TextDiff(path, left, right) == <<"Text diff at", path, left, right>>
TagDiff(path, left, right) == <<"Tag diff at", path, left, right>>
AttribDiff(path, left, right) == <<"Attrib diff at", path, left, right>>
ExtraElement(where, side) == <<"Extra element", where, side>>

\* `${n}` of a normalized node: the text, or "[object Object]"
NodeText(n) == IF Kind(n) = "str" THEN n[2] ELSE ObjectObjectText

\* path || '/'
PathOrRoot(path) == IF path # <<>> THEN path ELSE <<"/">>

ChildTag(child) ==
  IF Kind(child) = "str" THEN <<"#", "t", "e", "x", "t">> ELSE child[2]

RECURSIVE diff(_, _, _)
diff(n1, n2, path) ==
  IF Kind(n1) = "str" \/ Kind(n2) = "str" THEN
    IF ~(Kind(n1) = "str" /\ Kind(n2) = "str" /\ n1 = n2)
    THEN <<TextDiff(PathOrRoot(path), NodeText(n1), NodeText(n2))>>
    ELSE <<>>
  ELSE
    LET tagPart == IF n1[2] # n2[2] THEN <<TagDiff(PathOrRoot(path), n1[2], n2[2])>>
                   ELSE <<>>
        j1 == JSONstringify(n1[3])
        j2 == JSONstringify(n2[3])
        attrPart == IF j1 # j2 THEN <<AttribDiff(PathOrRoot(path), j1, j2)>> ELSE <<>>
        c1 == n1[4]
        c2 == n2[4]
        min == Min(Len(c1), Len(c2))
        common == ThenAll([i \in 1..min |->
                    diff(c1[i], c2[i], path \o <<"/">> \o ChildTag(c1[i]))], 1)
        sep == IF path # <<>> THEN <<"/">> ELSE <<>>
        extra ==
          IF Len(c1) > Len(c2)
          THEN [j \in 1..(Len(c1) - Len(c2)) |->
                  ExtraElement(PathOrRoot(path) \o sep \o ChildTag(c1[Len(c2) + j]),
                               "first")]
          ELSE IF Len(c2) > Len(c1)
          THEN [j \in 1..(Len(c2) - Len(c1)) |->
                  ExtraElement(PathOrRoot(path) \o sep \o ChildTag(c2[Len(c1) + j]),
                               "second")]
          ELSE <<>>
    IN  tagPart \o attrPart \o common \o extra

xmlCompare(xml1, xml2, orderSensitive) ==
  LET root1 == parseXml(xml1)
      root2 == parseXml(xml2)
  IN  IF ~root1.ok THEN Thrown("XML A parse error")
      ELSE IF ~root2.ok THEN Thrown("XML B parse error")
      ELSE Returned(diff(normalize(root1.root, orderSensitive),
                         normalize(root2.root, orderSensitive),
                         <<"/">> \o root1.root[2]))

----------------------------------------------------------------------------
(* csvComparator.  A row is a sequence of cells, a cell a string.           *)

\* The row that pushRow (lines 11-14) and the final flush (line 42) drop.
IsDroppedRow(row, ignoreEmpty) == ignoreEmpty /\ Len(row) = 1 /\ row[1] = <<>>

pushRow(rows, row, ignoreEmpty) ==
  IF ~IsDroppedRow(row, ignoreEmpty) THEN Append(rows, row) ELSE rows

\* The loop of parseCSV from index i (1-based) with its four locals.
RECURSIVE ParseCsvFrom(_, _, _, _, _, _, _, _)
ParseCsvFrom(chars, i, rows, row, field, inQuotes, delimiter, ignoreEmpty) ==
  IF i > Len(chars) THEN
    pushRow(rows, Append(row, field), ignoreEmpty)
  ELSE
    LET c == chars[i]
        next == IF i + 1 <= Len(chars) THEN chars[i + 1] ELSE "EOF"
    IN  IF inQuotes THEN
          IF c = "\"" THEN
            IF next = "\""
            THEN ParseCsvFrom(chars, i + 2, rows, row, Append(field, "\""), TRUE,
                              delimiter, ignoreEmpty)
            ELSE ParseCsvFrom(chars, i + 1, rows, row, field, FALSE,
                              delimiter, ignoreEmpty)
          ELSE ParseCsvFrom(chars, i + 1, rows, row, Append(field, c), TRUE,
                            delimiter, ignoreEmpty)
        ELSE IF c = "\"" THEN
          ParseCsvFrom(chars, i + 1, rows, row, field, TRUE, delimiter, ignoreEmpty)
        ELSE IF c = delimiter THEN
          ParseCsvFrom(chars, i + 1, rows, Append(row, field), <<>>, FALSE,
                       delimiter, ignoreEmpty)
        ELSE IF c = "\n" THEN
          ParseCsvFrom(chars, i + 1, pushRow(rows, Append(row, field), ignoreEmpty),
                       <<>>, <<>>, FALSE, delimiter, ignoreEmpty)
        ELSE IF c = "\r" THEN
          ParseCsvFrom(chars, IF next = "\n" THEN i + 2 ELSE i + 1,
                       pushRow(rows, Append(row, field), ignoreEmpty),
                       <<>>, <<>>, FALSE, delimiter, ignoreEmpty)
        ELSE ParseCsvFrom(chars, i + 1, rows, row, Append(field, c), FALSE,
                          delimiter, ignoreEmpty)

parseCSV(text, delimiter, ignoreEmpty) ==
  ParseCsvFrom(text, 1, <<>>, <<>>, <<>>, FALSE, delimiter, ignoreEmpty)

RowValue(row) == Arr([i \in 1..Len(row) |-> Str(row[i])])

\* A mutation of toKey: only the first cell of the row makes the key.
toKeyFirstCell(row) == JSONstringify(Arr(<<Str(row[1])>>))

toKey(row) == JSONstringify(RowValue(row))

\* JSON.parse(k) of a key, as a row again.
KeyToRow(k) ==
  LET v == JSONparse(k).val
  IN  [i \in 1..Len(v[2]) |-> v[2][i][2]]

\* A Map is the sequence of <<key, count>> in insertion order.
MapHas(map, k) == \E i \in 1..Len(map) : map[i][1] = k
MapGet(map, k) ==
  IF MapHas(map, k) THEN map[CHOOSE i \in 1..Len(map) : map[i][1] = k][2] ELSE 0
MapSet(map, k, n) ==
  IF MapHas(map, k)
  THEN [i \in 1..Len(map) |-> IF map[i][1] = k THEN <<k, n>> ELSE map[i]]
  ELSE Append(map, <<k, n>>)
MapKeys(map) == [i \in 1..Len(map) |-> map[i][1]]

RECURSIVE CountRowsFrom(_, _, _)
CountRowsFrom(rows, i, map) ==
  IF i > Len(rows) THEN map
  ELSE LET k == toKey(rows[i])
       IN  CountRowsFrom(rows, i + 1, MapSet(map, k, MapGet(map, k) + 1))

countRows(rows) == CountRowsFrom(rows, 1, <<>>)

Copies(n, x) == [i \in 1..n |-> x]

\* A mutation of MissingStep: the else branch of lines 82-84 is lost.
MissingStepFirstOnly(acc, k, n1, n2) ==
  IF n1 > n2
  THEN [acc EXCEPT !.missingInFile2 = @ \o Copies(n1 - n2, KeyToRow(k))]
  ELSE acc

\* A mutation of MissingStep: a set difference, one copy whatever the counts.
MissingStepCollapsed(acc, k, n1, n2) ==
  IF n1 > n2
  THEN [acc EXCEPT !.missingInFile2 = Append(@, KeyToRow(k))]
  ELSE IF n2 > n1
  THEN [acc EXCEPT !.missingInFile1 = Append(@, KeyToRow(k))]
  ELSE acc

\* Lines 78-84: one key of allKeys with its two counts.
MissingStep(acc, k, n1, n2) ==
  IF n1 > n2
  THEN [acc EXCEPT !.missingInFile2 = @ \o Copies(n1 - n2, KeyToRow(k))]
  ELSE IF n2 > n1
  THEN [acc EXCEPT !.missingInFile1 = @ \o Copies(n2 - n1, KeyToRow(k))]
  ELSE acc

\* The loop of lines 77-85 over allKeys from index i.
RECURSIVE MissingFrom(_, _, _, _, _)
MissingFrom(allKeys, i, c1, c2, acc) ==
  IF i > Len(allKeys) THEN acc
  ELSE MissingFrom(allKeys, i + 1, c1, c2,
                   MissingStep(acc, allKeys[i], MapGet(c1, allKeys[i]),
                               MapGet(c2, allKeys[i])))

\* A mutation of EffectiveRows: the header row is kept.
EffectiveRowsKeepHeader(rows, ignoreHeader) == rows

\* rows.slice(1) when ignoreHeader and the list is not empty
EffectiveRows(rows, ignoreHeader) ==
  IF ignoreHeader /\ Len(rows) > 0 THEN Tail(rows) ELSE rows

csvCompare(text1, text2, delimiter, ignoreHeader, ignoreEmpty) ==
  LET rows1 == parseCSV(text1, delimiter, ignoreEmpty)
      rows2 == parseCSV(text2, delimiter, ignoreEmpty)
      c1 == countRows(EffectiveRows(rows1, ignoreHeader))
      c2 == countRows(EffectiveRows(rows2, ignoreHeader))
      allKeys == MapKeys(c1) \o SelectSeq(MapKeys(c2), LAMBDA k : ~MapHas(c1, k))
  IN  MissingFrom(allKeys, 1, c1, c2, [missingInFile2 |-> <<>>, missingInFile1 |-> <<>>])

----------------------------------------------------------------------------
(* The inputs.  Each family is a set of documents; the two documents of a   *)
(* comparison are drawn from one family.                                    *)

MaxArrayLen == 3
XmlMaxChildren == 2
CsvMaxRows == 3

SeqsUpTo(S, n) == UNION {[1..k -> S] : k \in 0..n}

KeyA == <<"a">>
KeyB == <<"b">>
PlainObj(props) == Obj(props, ObjectPrototype)

\* Values of every kind, and objects whose __proto__ member is a scalar,
\* null, an object or an array.
JsonMixedValues ==
  { Num(1), Num(2), Str(<<"1">>), Null, Bool(TRUE),
    Str(<<"t", "r", "u", "e">>), Str(<<"n", "u", "l", "l">>),
    Arr(<<>>), Arr(<<Num(1)>>), PlainObj(<<>>), PlainObj(<<<<KeyA, Num(1)>>>>),
    PlainObj(<<<<<<"0">>, Num(1)>>>>),
    PlainObj(<<<<ProtoKey, Null>>>>),
    PlainObj(<<<<ProtoKey, Arr(<<Num(1)>>)>>>>),
    PlainObj(<<<<ProtoKey, PlainObj(<<<<KeyA, Num(1)>>>>)>>>>) }

JsonFlatArrays == {Arr(s) : s \in SeqsUpTo({Num(1), Num(2)}, MaxArrayLen)}

JsonKeyLists ==
  { <<>>, <<KeyA>>, <<KeyB>>, <<KeyA, KeyB>>, <<KeyB, KeyA>>, <<ProtoKey>>,
    <<KeyA, ProtoKey>>, <<ProtoKey, KeyA>>, <<ConstructorKey>>,
    <<KeyB, ConstructorKey>> }

JsonFlatObjects ==
  UNION { { PlainObj([i \in 1..Len(ks) |-> <<ks[i], vs[i]>>]) :
              vs \in [1..Len(ks) -> {Num(1), Num(2)}] } : ks \in JsonKeyLists }

JsonNestedPool ==
  { PlainObj(<<<<KeyA, Num(1)>>, <<KeyB, Num(2)>>>>),
    PlainObj(<<<<KeyB, Num(2)>>, <<KeyA, Num(1)>>>>),
    PlainObj(<<<<KeyA, Num(2)>>, <<KeyB, Num(1)>>>>),
    PlainObj(<<<<ProtoKey, Num(1)>>>>),
    PlainObj(<<<<ProtoKey, Num(2)>>>>),
    PlainObj(<<<<ProtoKey, PlainObj(<<<<KeyA, Num(1)>>, <<KeyB, Num(2)>>>>)>>>>),
    Arr(<<Num(1), Num(2)>>) }

JsonNestedArrays == {Arr(<<x, y>>) : x \in JsonNestedPool, y \in JsonNestedPool}

\* Arrays and objects that hold scalars of every type, next to an object
\* whose __proto__ member is null, an array or an object.
JsonTypedNested ==
  { Arr(<<Num(1), Num(2)>>), Arr(<<Num(5), Str(<<"1">>)>>),
    Arr(<<Num(1), Num(1)>>), Arr(<<Str(<<"1">>), Bool(TRUE)>>),
    Arr(<<Null, Str(<<"t", "r", "u", "e">>)>>),
    Arr(<<Str(<<"n", "u", "l", "l">>), Null, Num(1)>>),
    Arr(<<PlainObj(<<<<ProtoKey, Null>>>>)>>),
    Arr(<<PlainObj(<<<<ProtoKey, Null>>>>), Num(1)>>),
    PlainObj(<<<<KeyA, Num(1)>>, <<KeyB, Str(<<"t", "r", "u", "e">>)>>>>),
    PlainObj(<<<<KeyA, Str(<<"1">>)>>, <<KeyB, Bool(TRUE)>>>>),
    PlainObj(<<<<KeyA, Null>>, <<KeyB, Bool(TRUE)>>>>),
    PlainObj(<<<<KeyA, Arr(<<>>)>>, <<KeyB, Arr(<<>>)>>>>),
    PlainObj(<<<<ProtoKey,
                 PlainObj(<<<<KeyA, Arr(<<Num(1), Num(2), Num(1)>>)>>,
                            <<KeyB, Arr(<<Num(1), Num(2), Num(1)>>)>>>>)>>>>) }

\* `text` with `sep` after every comma and `trail` at the end.
RECURSIVE Layout(_, _, _)
Layout(text, sep, trail) ==
  IF text = <<>> THEN trail
  ELSE IF Head(text) = "," THEN <<",">> \o sep \o Layout(Tail(text), sep, trail)
  ELSE <<Head(text)>> \o Layout(Tail(text), sep, trail)

JsonLayoutTexts ==
  { Layout(JSONstringify(v), sep, trail) :
      v \in { Arr(<<Num(1), Num(2)>>),
              PlainObj(<<<<KeyA, Num(1)>>, <<KeyB, Arr(<<Num(1), Num(2)>>)>>>>) },
      sep \in {<<>>, <<" ">>, <<"\n">>, <<"\r", "\n">>},
      trail \in {<<>>, <<"\n">>} }

JsonBrokenTexts == { <<>>, <<"[", "1", ",">>, <<"0", "1">>, <<"{", "\"", "a", "\"", "}">> }

JsonFamilies ==
  { {JSONstringify(v) : v \in JsonMixedValues} \cup JsonBrokenTexts,
    {JSONstringify(v) : v \in JsonFlatArrays},
    {JSONstringify(v) : v \in JsonFlatObjects},
    {JSONstringify(v) : v \in JsonNestedArrays},
    {JSONstringify(v) : v \in JsonTypedNested},
    JsonLayoutTexts }

JsonModes == {"absent", "exact", "full", "ordered", "arrays", "foo", "Exact"}

TagA == <<"a">>
TagB == <<"b">>
TagR == <<"r">>
AttrX1 == <<<<"x">>, <<"1">>>>
AttrY2 == <<<<"y">>, <<"2">>>>
AttrY3 == <<<<"y">>, <<"3">>>>

XmlChildPool ==
  { Element(TagA, <<>>, <<TextNode(<<"1">>)>>),
    Element(TagA, <<>>, <<TextNode(<<"2">>)>>),
    Element(TagB, <<>>, <<>>),
    TextNode(<<"t">>) }

\* DOMParser never returns two adjacent text nodes.
NoAdjacentText(s) ==
  \A i \in 1..(Len(s) - 1) : ~(Kind(s[i]) = "text" /\ Kind(s[i + 1]) = "text")

XmlSiblingDocs ==
  { Element(TagR, <<>>, s) :
      s \in {c \in SeqsUpTo(XmlChildPool, XmlMaxChildren) : NoAdjacentText(c)} }

XmlAttributeDocs ==
  { Element(TagA, attrs, <<>>) :
      attrs \in { <<>>, <<AttrX1>>, <<AttrX1, AttrY2>>, <<AttrY2, AttrX1>>,
                  <<AttrX1, AttrY3>>, <<<<ProtoKey, <<"1">>>>>> } }
  \cup { Element(TagB, <<AttrX1>>, <<>>),
         Element(TagB, <<>>, <<>>),
         Element(TagR, <<>>, <<Element(TagA, <<AttrX1, AttrY2>>, <<>>),
                               Element(TagA, <<AttrY2, AttrX1>>, <<>>)>>) }

XmlTextDocs ==
  { Element(TagR, <<>>, <<>>),
    Element(TagR, <<>>, <<TextNode(<<" ">>)>>),
    Element(TagR, <<>>, <<TextNode(<<"t">>)>>),
    Element(TagR, <<>>, <<TextNode(<<" ", "t", "\n">>)>>),
    Element(TagR, <<>>, <<CommentNode(<<"c">>)>>),
    Element(TagR, <<>>, <<TextNode(<<"t">>), CommentNode(<<"c">>), TextNode(<<"t">>)>>),
    Element(TagR, <<>>, <<TextNode(<<"\n">>), Element(TagA, <<>>, <<>>),
                          TextNode(<<"\n">>)>>),
    Element(TagR, <<>>, <<Element(TagA, <<>>, <<>>)>>),
    Element(TagR, <<>>, <<Element(TagA, <<>>, <<Element(TagB, <<>>, <<>>)>>)>>),
    Element(TagR, <<>>, <<Element(TagB, <<>>, <<Element(TagB, <<>>, <<>>)>>)>>),
    Element(TagR, <<>>, <<Element(TagB, <<AttrX1>>, <<Element(TagA, <<>>, <<>>),
                                                      TextNode(<<"t">>)>>)>>),
    Element(TagR, <<>>, <<Element(ParserErrorTag, <<>>, <<>>)>>),
    Element(TagR, <<>>, <<TextNode(<<"\n">>), Element(ParserErrorTag, <<>>, <<>>)>>),
    Element(ParserErrorTag, <<>>, <<>>),
    ParserError }

XmlFamilies == { XmlSiblingDocs, XmlAttributeDocs, XmlTextDocs }

\* The lines of `lines` joined by line feeds.
CsvText(lines) == Join(lines, <<"\n">>)

CsvRowTexts == {CsvText(ls) : ls \in SeqsUpTo({<<"a">>, <<"b">>}, CsvMaxRows)}

CsvEmptyRowTexts ==
  { CsvText(ls) : ls \in SeqsUpTo({<<"a">>, <<>>, <<",", ",">>, <<" ">>}, 2) }

CsvQuotedTexts ==
  { <<"a", ",", "b">>, <<"b", ",", "a">>, <<"\"", "a", ",", "b", "\"">>,
    <<"a", ";", "b">>, <<"\"", "a", "\"", "\"", "b", "\"">>,
    <<"\"", "a", "\n", "b", "\"">>, <<"a", "\r", "\n", "b">>, <<"a", "\r", "b">>,
    <<"a", "\n", "b">>, <<"\"", "\"">>, <<"\"", "\"", ",", "\"", "\"">>,
    <<"a", "\"", "b">>, <<"[", "\\", "]">> }

CsvFamilies == { CsvRowTexts, CsvEmptyRowTexts, CsvQuotedTexts }

\* The texts of the canonicalization on the heap: scalars, arrays in and out
\* of order, objects with their keys in and out of order, nested both ways.
HeapValues ==
  { Num(1), Null, Arr(<<>>), Arr(<<Num(2), Num(1)>>), Arr(<<Num(1), Num(2)>>),
    PlainObj(<<<<KeyB, Num(2)>>, <<KeyA, Num(1)>>>>),
    PlainObj(<<<<KeyA, Arr(<<Num(2), Num(1)>>)>>>>),
    PlainObj(<<<<ProtoKey, Arr(<<Num(2), Num(1)>>)>>, <<KeyA, Num(1)>>>>),
    Arr(<<Arr(<<Num(2), Num(1)>>), Arr(<<Num(1)>>)>>),
    Arr(<<PlainObj(<<<<KeyB, Num(1)>>, <<KeyA, Num(2)>>>>), Num(1)>>) }

HeapTexts == {JSONstringify(v) : v \in HeapValues}

----------------------------------------------------------------------------
(* The state machine: two documents are loaded, then one of the three       *)
(* compare functions is called once with some options.                      *)

VARIABLES
  kind,     \* "json" | "xml" | "csv": which comparator the documents are for
  docA,     \* the first document
  docB,     \* the second document
  opts,     \* the options of the call, NoOpts before it
  pc,       \* "ready" | "done"
  result    \* what the call returned or threw, Pending before it

compareVars == <<kind, docA, docB, opts, pc, result>>

\* The canonicalization of the two parsed values, step by step on a heap.
VARIABLES
  texts,     \* <<text1, text2>>, the arguments of compare
  heapMode,  \* "full" | "ordered", the mode sortJson is called with
  heap,      \* the arrays and objects allocated so far
  parsed,    \* <<j1, j2>>: what JSON.parse returned
  sorted,    \* <<s1, s2>>: what sortJson returned
  yielded,   \* the records of findDifferences
  heapPc     \* "idle" | "parsed" | "first" | "sorted" | "diffed"

heapVars == <<texts, heapMode, heap, parsed, sorted, yielded, heapPc>>

\* The graph view of a parsed JSON value.
VARIABLES
  gObj,         \* the value renderGraph is called with
  gStart,       \* opts.startAtSingleChild: "absent" | "true" | "false"
  gNodes,       \* the nodes buildTree built, the node of id i at index i
  gRoot,        \* the id of the node the graph starts from, 0 before renderGraph
  gExpanded,    \* the set `expanded` of node ids
  gDrawnEdges,  \* the edges in the svg, <<parent id, child id, label>>, as drawn
  gDrawnNodes,  \* the ids of the node groups in the svg, as drawn
  gClickable,   \* the ids of the groups with a click listener
  gOp,          \* the last operation: <<"renderGraph">>, <<"click", id>>, ...
  gBefore,      \* `expanded` before the last operation
  gPc           \* "idle" | "ready" | "rendered"

graphVars == <<gObj, gStart, gNodes, gRoot, gExpanded, gDrawnEdges, gDrawnNodes,
               gClickable, gOp, gBefore, gPc>>

\* The tree view of a parsed JSON value.
VARIABLES
  tValue,  \* the value renderTree is called with
  tDom,    \* the nodes in the container, each with its path of child indices
  tPc      \* "idle" | "ready" | "rendered"

treeVars == <<tValue, tDom, tPc>>

\* One call of sliceImageFile.
VARIABLES
  sFile,       \* the file argument: an image file, or "null"
  sKRaw,       \* the argument k as passed
  sSquare,     \* options.square
  sAlign,      \* options.align
  sImage,      \* the decoded image: [width, height], NoImage before the load
  sK,          \* k after line 446
  sI,          \* the loop variable i
  sResults,    \* the slices pushed so far
  sDestroyed,  \* the number of calls of img.destroy
  sError,      \* the message of the rejection, "none" without one
  sPc          \* "idle" | "called" | "loading" | "encoding" | "resolved" | "rejected"

slicerVars == <<sFile, sKRaw, sSquare, sAlign, sImage, sK, sI, sResults, sDestroyed,
                sError, sPc>>

\* One call of generateUpdateStatements.
VARIABLES
  qRecords,  \* the argument records
  qConfig,   \* the argument config
  qResult,   \* what the call returned or threw
  qPc        \* "idle" | "ready" | "done"

sqlVars == <<qRecords, qConfig, qResult, qPc>>

vars == <<compareVars, heapVars, graphVars, treeVars, slicerVars, sqlVars>>

\* What the actions of one machine leave alone: the other machines.
compareFrame == <<heapVars, graphVars, treeVars, slicerVars, sqlVars>>
heapFrame == <<compareVars, graphVars, treeVars, slicerVars, sqlVars>>
graphFrame == <<compareVars, heapVars, treeVars, slicerVars, sqlVars>>
treeFrame == <<compareVars, heapVars, graphVars, slicerVars, sqlVars>>
slicerFrame == <<compareVars, heapVars, graphVars, treeVars, sqlVars>>
sqlFrame == <<compareVars, heapVars, graphVars, treeVars, slicerVars>>

\* The machines that take no part in a behaviour stay as they start.
HeapIdle ==
  /\ texts = <<>> /\ heapMode = "none" /\ heap = <<>> /\ parsed = <<>>
  /\ sorted = <<>> /\ yielded = <<>> /\ heapPc = "idle"

CompareIdle ==
  /\ kind = "none" /\ docA = <<>> /\ docB = <<>> /\ opts = <<>>
  /\ pc = "idle" /\ result = <<>>

GraphIdle ==
  /\ gObj = <<>> /\ gStart = "absent" /\ gNodes = <<>> /\ gRoot = 0
  /\ gExpanded = {} /\ gDrawnEdges = <<>> /\ gDrawnNodes = <<>>
  /\ gClickable = {} /\ gOp = <<>> /\ gBefore = {} /\ gPc = "idle"

TreeIdle == tValue = <<>> /\ tDom = {} /\ tPc = "idle"

SlicerIdle ==
  /\ sFile = "null" /\ sKRaw = <<>> /\ sSquare = FALSE /\ sAlign = "center"
  /\ sImage = <<>> /\ sK = 0 /\ sI = 0 /\ sResults = <<>> /\ sDestroyed = 0
  /\ sError = "none" /\ sPc = "idle"

SqlIdle == qRecords = <<>> /\ qConfig = <<>> /\ qResult = <<>> /\ qPc = "idle"

\* Every machine but `m` is idle.
OthersIdle(m) ==
  /\ m = "compare" \/ CompareIdle
  /\ m = "heap" \/ HeapIdle
  /\ m = "graph" \/ GraphIdle
  /\ m = "tree" \/ TreeIdle
  /\ m = "slicer" \/ SlicerIdle
  /\ m = "sql" \/ SqlIdle

NoOpts == [mode |-> "absent", orderSensitive |-> FALSE, delimiter |-> ",",
           ignoreHeader |-> FALSE, ignoreEmpty |-> TRUE]

Pending == [status |-> "pending", out |-> <<>>, error |-> "none"]

Init ==
  /\ \/ kind = "json" /\ \E F \in JsonFamilies : docA \in F /\ docB \in F
     \/ kind = "xml" /\ \E F \in XmlFamilies : docA \in F /\ docB \in F
     \/ kind = "csv" /\ \E F \in CsvFamilies : docA \in F /\ docB \in F
  /\ opts = NoOpts
  /\ pc = "ready"
  /\ result = Pending
  /\ OthersIdle("compare")

\* jsonComparator.compare(docA, docB, {mode})
JsonCompare ==
  /\ pc = "ready" /\ kind = "json"
  /\ \E m \in JsonModes :
       /\ opts' = [NoOpts EXCEPT !.mode = m]
       /\ result' = jsonCompare(docA, docB, m)
  /\ pc' = "done"
  /\ UNCHANGED <<kind, docA, docB>>
  /\ UNCHANGED compareFrame

\* xmlComparator.compare(docA, docB, {orderSensitive})
XmlCompare ==
  /\ pc = "ready" /\ kind = "xml"
  /\ \E os \in BOOLEAN :
       /\ opts' = [NoOpts EXCEPT !.orderSensitive = os]
       /\ result' = xmlCompare(docA, docB, os)
  /\ pc' = "done"
  /\ UNCHANGED <<kind, docA, docB>>
  /\ UNCHANGED compareFrame

\* csvComparator.compare(docA, docB, {delimiter, ignoreHeader, ignoreEmpty})
CsvCompare ==
  /\ pc = "ready" /\ kind = "csv"
  /\ \E d \in {",", ";"}, ih \in BOOLEAN, ie \in BOOLEAN :
       /\ opts' = [NoOpts EXCEPT !.delimiter = d, !.ignoreHeader = ih,
                                 !.ignoreEmpty = ie]
       /\ result' = csvCompare(docA, docB, d, ih, ie)
  /\ pc' = "done"
  /\ UNCHANGED <<kind, docA, docB>>
  /\ UNCHANGED compareFrame

Next == JsonCompare \/ XmlCompare \/ CsvCompare

Spec == Init /\ [][Next]_vars

----------------------------------------------------------------------------
(* The structural compare on the heap: lines 95-99 of jsonComparator.js.    *)

\* The heap and the two values after both texts are parsed (lines 95-96).
ParsedHeap(t1, t2) ==
  LET a == Load(<<>>, JSONparse(t1).val)
      b == Load(a.heap, JSONparse(t2).val)
  IN  [heap |-> b.heap, vals |-> <<a.val, b.val>>]

InitHeap ==
  /\ OthersIdle("heap")
  /\ texts \in HeapTexts \X HeapTexts
  /\ heapMode \in {"full", "ordered"}
  /\ heap = ParsedHeap(texts[1], texts[2]).heap
  /\ parsed = ParsedHeap(texts[1], texts[2]).vals
  /\ sorted = <<>>
  /\ yielded = <<>>
  /\ heapPc = "parsed"

\* const s1 = sortJson(j1, ...)
SortFirst ==
  /\ heapPc = "parsed"
  /\ LET r == sortJsonH(heap, parsed[1], heapMode)
     IN  heap' = r.heap /\ sorted' = <<r.val>>
  /\ heapPc' = "first"
  /\ UNCHANGED <<texts, heapMode, parsed, yielded, heapFrame>>

\* const s2 = sortJson(j2, ...)
SortSecond ==
  /\ heapPc = "first"
  /\ LET r == sortJsonH(heap, parsed[2], heapMode)
     IN  heap' = r.heap /\ sorted' = <<sorted[1], r.val>>
  /\ heapPc' = "sorted"
  /\ UNCHANGED <<texts, heapMode, parsed, yielded, heapFrame>>

\* Array.from(findDifferences(s1, s2)): the generator reads the two trees and
\* assigns to nothing but its locals.
FindDifferences ==
  /\ heapPc = "sorted"
  /\ yielded' = findDifferences(Deref(heap, sorted[1]), Deref(heap, sorted[2]), <<>>)
  /\ heapPc' = "diffed"
  /\ UNCHANGED <<texts, heapMode, heap, parsed, sorted, heapFrame>>

NextHeap == SortFirst \/ SortSecond \/ FindDifferences

SpecHeap == InitHeap /\ [][NextHeap]_vars

----------------------------------------------------------------------------
(* The graph view of jsonViewer.js.  buildTree numbers the nodes in         *)
(* preorder from 1; a node is a record, its children a sequence of          *)
(* [edge, child] with the id of the child.  Positions and sizes (layout,    *)
(* measureLayout, the viewBox) are not part of the state.                   *)

\* typeof obj
TypeOf(obj) ==
  CASE Kind(obj) = "num" -> "number"
    [] Kind(obj) = "str" -> "string"
    [] Kind(obj) = "bool" -> "boolean"
    [] Kind(obj) = "undef" -> "undefined"
    [] OTHER -> "object"

RECURSIVE buildTree(_, _, _, _)
RECURSIVE BuildChildren(_, _, _, _, _, _)

\* The loops of buildTree over the elements or the keys: `edges` and `keys`
\* name the values `vals`; acc holds the nodes built and the children pushed.
BuildChildren(edges, keys, vals, next, depth, acc) ==
  IF vals = <<>> THEN acc
  ELSE LET sub == buildTree(Head(vals), Head(keys), next, depth)
       IN  BuildChildren(Tail(edges), Tail(keys), Tail(vals), next + Len(sub), depth,
                         [nodes |-> acc.nodes \o sub,
                          children |-> Append(acc.children,
                                              [edge |-> Head(edges), child |-> next])])

\* buildTree(obj, key, idStart, depth) with idStart.v = id: the nodes of the
\* subtree in the order of their ids, the node of obj first.
buildTree(obj, key, id, depth) ==
  LET isArray == IsArray(obj)
      isObject == isObj(obj)
      none == [nodes |-> <<>>, children |-> <<>>]
      built ==
        IF isArray
        THEN BuildChildren([i \in 1..Len(obj[2]) |-> NumToStr(i - 1)],
                           [i \in 1..Len(obj[2]) |-> Undefined],
                           obj[2], id + 1, depth + 1, none)
        ELSE IF isObject
        THEN BuildChildren(OwnKeys(obj),
                           [i \in 1..Len(obj[2]) |-> Str(OwnKeys(obj)[i])],
                           [i \in 1..Len(obj[2]) |-> OwnValue(obj, OwnKeys(obj)[i])],
                           id + 1, depth + 1, none)
        ELSE none
  IN  <<[id |-> id, key |-> key, depth |-> depth,
         type |-> IF isArray THEN "array" ELSE IF isObject THEN "object" ELSE TypeOf(obj),
         value |-> IF isArray \/ isObject THEN Null ELSE obj,
         children |-> built.children]>> \o built.nodes

RECURSIVE collectNodes(_, _)
RECURSIVE CollectChildren(_, _, _)

\* collectNodes(node): the ids of the subtree of node n, in preorder.
collectNodes(nodes, n) == <<n>> \o CollectChildren(nodes, nodes[n].children, 1)

CollectChildren(nodes, children, i) ==
  IF i > Len(children) THEN <<>>
  ELSE collectNodes(nodes, children[i].child) \o CollectChildren(nodes, children, i + 1)

\* A mutation of visibleNodes: the walk does not stop at a collapsed node.
visibleNodesAll(nodes, n, expanded) == collectNodes(nodes, n)

RECURSIVE visibleNodes(_, _, _)
RECURSIVE VisibleChildren(_, _, _, _)

\* visibleNodes(root, expanded): walk pushes n and goes on into the children
\* of an expanded node only.
visibleNodes(nodes, n, expanded) ==
  <<n>> \o (IF n \notin expanded THEN <<>>
            ELSE VisibleChildren(nodes, nodes[n].children, 1, expanded))

VisibleChildren(nodes, children, i, expanded) ==
  IF i > Len(children) THEN <<>>
  ELSE visibleNodes(nodes, children[i].child, expanded)
         \o VisibleChildren(nodes, children, i + 1, expanded)

RECURSIVE drawVisibleEdges(_, _, _)
RECURSIVE DrawEdgesFrom(_, _, _, _, _)

\* drawVisibleEdges(n): the edges drawn, in the order of the drawEdge calls.
drawVisibleEdges(nodes, n, expanded) ==
  IF n \in expanded THEN DrawEdgesFrom(nodes, n, nodes[n].children, 1, expanded)
  ELSE <<>>

DrawEdgesFrom(nodes, n, children, i, expanded) ==
  IF i > Len(children) THEN <<>>
  ELSE <<<<n, children[i].child, children[i].edge>>>>
         \o drawVisibleEdges(nodes, children[i].child, expanded)
         \o DrawEdgesFrom(nodes, n, children, i + 1, expanded)

\* rerender(): the svg is emptied, then the edges and the node groups are
\* drawn; the groups of the nodes with children get the click listener.
rerender(nodes, root, expanded) ==
  LET drawn == visibleNodes(nodes, root, expanded)
  IN  [edges |-> drawVisibleEdges(nodes, root, expanded),
       drawn |-> drawn,
       clickable |-> {drawn[i] : i \in {j \in 1..Len(drawn) :
                                          nodes[drawn[j]].children # <<>>}}]

\* The values shown: a scalar, empty containers, an object with one key
\* (the graph starts from its child), nested arrays and objects.
GraphValues ==
  { Num(1), Null, Arr(<<>>), PlainObj(<<>>),
    PlainObj(<<<<KeyA, PlainObj(<<<<KeyB, Arr(<<Num(1), Num(2)>>)>>,
                                  <<KeyA, Num(1)>>>>)>>>>),
    PlainObj(<<<<KeyA, Num(1)>>>>),
    Arr(<<Arr(<<Arr(<<Num(1)>>), Num(2)>>), PlainObj(<<<<KeyA, Arr(<<Null>>)>>>>)>>),
    PlainObj(<<<<KeyA, Num(1)>>,
               <<KeyB, PlainObj(<<<<KeyA, PlainObj(<<<<KeyA, Str(<<"t">>)>>>>)>>>>)>>>>) }

InitGraph ==
  /\ OthersIdle("graph")
  /\ gObj \in GraphValues
  /\ gStart \in {"absent", "true", "false"}
  /\ gNodes = <<>> /\ gRoot = 0 /\ gExpanded = {}
  /\ gDrawnEdges = <<>> /\ gDrawnNodes = <<>> /\ gClickable = {}
  /\ gOp = <<>> /\ gBefore = {}
  /\ gPc = "ready"

\* The svg after rerender() with the set `expanded`.
Rerendered(nodes, root, expanded) ==
  /\ gDrawnEdges' = rerender(nodes, root, expanded).edges
  /\ gDrawnNodes' = rerender(nodes, root, expanded).drawn
  /\ gClickable' = rerender(nodes, root, expanded).clickable

\* renderGraph(svg, gObj, {startAtSingleChild: gStart})
RenderGraph ==
  /\ gPc = "ready"
  /\ LET nodes == buildTree(gObj, Undefined, 1, 0)
         root == IF gStart # "false" /\ nodes[1].type = "object"
                    /\ Len(nodes[1].children) = 1
                 THEN nodes[1].children[1].child ELSE 1
     IN  /\ gNodes' = nodes
         /\ gRoot' = root
         /\ gExpanded' = {}
         /\ Rerendered(nodes, root, {})
  /\ gOp' = <<"renderGraph">>
  /\ gBefore' = {}
  /\ gPc' = "rendered"
  /\ UNCHANGED <<gObj, gStart, graphFrame>>

\* A click on the group of node n.
ClickNode ==
  /\ gPc = "rendered"
  /\ \E n \in gClickable :
       /\ gExpanded' = IF n \in gExpanded THEN gExpanded \ {n} ELSE gExpanded \cup {n}
       /\ gOp' = <<"click", n>>
  /\ Rerendered(gNodes, gRoot, gExpanded')
  /\ gBefore' = gExpanded
  /\ UNCHANGED <<gObj, gStart, gNodes, gRoot, gPc, graphFrame>>

\* svg._graphCtl.expandAll()
GraphExpandAll ==
  /\ gPc = "rendered"
  /\ LET all == collectNodes(gNodes, gRoot)
     IN  gExpanded' = {n \in {all[i] : i \in 1..Len(all)} : gNodes[n].children # <<>>}
  /\ Rerendered(gNodes, gRoot, gExpanded')
  /\ gOp' = <<"expandAll">>
  /\ gBefore' = gExpanded
  /\ UNCHANGED <<gObj, gStart, gNodes, gRoot, gPc, graphFrame>>

\* svg._graphCtl.collapseAll()
GraphCollapseAll ==
  /\ gPc = "rendered"
  /\ gExpanded' = {}
  /\ Rerendered(gNodes, gRoot, {})
  /\ gOp' = <<"collapseAll">>
  /\ gBefore' = gExpanded
  /\ UNCHANGED <<gObj, gStart, gNodes, gRoot, gPc, graphFrame>>

NextGraph == RenderGraph \/ ClickNode \/ GraphExpandAll \/ GraphCollapseAll

SpecGraph == InitGraph /\ [][NextGraph]_vars

----------------------------------------------------------------------------

(* The tree view of jsonViewer.js.  A node of the container is a record:    *)
(*   path       the indices of the children from the root node, from 1      *)
(*   container  the value is an array or an object                          *)
(*   collapsed  classList contains 'collapsed'                              *)
(*   toggle     _toggle.textContent: "-" | "+", "null" without a toggle     *)
(*   summary    _summary.style.display: "none" | "", "null" without one     *)
(*   built      childrenBuilt: the child nodes have been created            *)
(*   closing    the line of the closing bracket is in _children             *)

\* The values of the elements or of the keys, in the order of the children.
ChildValues(value) ==
  IF IsArray(value) THEN value[2]
  ELSE [i \in 1..Len(value[2]) |-> OwnValue(value, OwnKeys(value)[i])]

\* The value a node of the tree shows.
RECURSIVE ValueAt(_, _)
ValueAt(value, path) ==
  IF path = <<>> THEN value ELSE ValueAt(ChildValues(value)[Head(path)], Tail(path))

\* createNode(value, key): the node as it is returned.
createNode(value, path) ==
  IF ~IsArray(value) /\ ~isObj(value)
  THEN [path |-> path, container |-> FALSE, collapsed |-> FALSE, toggle |-> "null",
        summary |-> "null", built |-> FALSE, closing |-> FALSE]
  ELSE [path |-> path, container |-> TRUE, collapsed |-> FALSE, toggle |-> "-",
        summary |-> "none", built |-> FALSE, closing |-> FALSE]

NodeAt(dom, path) == CHOOSE n \in dom : n.path = path

\* The class, the toggle and the summary of a node after lines 39-41.
Marked(n, collapsed) ==
  [n EXCEPT !.collapsed = collapsed,
            !.toggle = IF n.toggle # "null" THEN (IF collapsed THEN "+" ELSE "-") ELSE @,
            !.summary = IF n.summary # "null" THEN (IF collapsed THEN "" ELSE "none")
                        ELSE @]

\* buildChildren of the node at `path`: once, one node per element or key,
\* each collapsed, and the closing line.
buildChildren(dom, value, path) ==
  LET n == NodeAt(dom, path)
      vals == ChildValues(ValueAt(value, path))
  IN  IF n.built THEN dom
      ELSE ((dom \ {n}) \cup {[n EXCEPT !.built = TRUE, !.closing = TRUE]})
             \cup {Marked(createNode(vals[i], Append(path, i)), TRUE) :
                     i \in 1..Len(vals)}

\* setCollapsed(node, collapsed) for the node at `path`.
setCollapsed(dom, value, path, collapsed) ==
  LET ensured == IF ~collapsed /\ NodeAt(dom, path).container
                 THEN buildChildren(dom, value, path) ELSE dom
      n == NodeAt(ensured, path)
  IN  (ensured \ {n}) \cup {Marked(n, collapsed)}

\* The paths of the nodes in the _children of the node at `path`.
ChildPaths(dom, path) ==
  {n.path : n \in {m \in dom : Len(m.path) = Len(path) + 1
                               /\ SubSeq(m.path, 1, Len(path)) = path}}

RECURSIVE SetCollapsedRecursive(_, _, _, _)
RECURSIVE SetCollapsedEach(_, _, _, _, _)

\* expandNodeRecursive (collapsed = FALSE) and collapseNodeRecursive
\* (collapsed = TRUE) of the node at `path`.
SetCollapsedRecursive(dom, value, path, collapsed) ==
  LET d == setCollapsed(dom, value, path, collapsed)
  IN  IF ~NodeAt(d, path).container THEN d
      ELSE SetCollapsedEach(d, value, path, 1, collapsed)

\* forEach over the child nodes of the node at `path`, in document order.
SetCollapsedEach(dom, value, path, i, collapsed) ==
  IF Append(path, i) \notin ChildPaths(dom, path) THEN dom
  ELSE SetCollapsedEach(SetCollapsedRecursive(dom, value, Append(path, i), collapsed),
                        value, path, i + 1, collapsed)

\* The values shown: a scalar, empty and nested arrays and objects.
TreeValues ==
  { Num(1), Arr(<<>>), PlainObj(<<>>),
    Arr(<<Num(1), Arr(<<Num(2)>>)>>),
    PlainObj(<<<<KeyA, PlainObj(<<<<KeyB, Arr(<<>>)>>>>)>>, <<KeyB, Num(1)>>>>),
    Arr(<<Arr(<<Arr(<<Null>>)>>), PlainObj(<<<<KeyA, Num(1)>>>>)>>),
    PlainObj(<<<<KeyA, Arr(<<Num(1)>>)>>, <<KeyB, Arr(<<Str(<<"t">>)>>)>>>>) }

InitTree ==
  /\ OthersIdle("tree")
  /\ tValue \in TreeValues
  /\ tDom = {}
  /\ tPc = "ready"

\* renderTree(container, tValue)
RenderTree ==
  /\ tPc = "ready"
  /\ tDom' = {createNode(tValue, <<>>)}
  /\ tPc' = "rendered"
  /\ UNCHANGED <<tValue, treeFrame>>

\* The nodes above the node at `path`.
ShownPath(dom, path) ==
  \A k \in 0..(Len(path) - 1) : ~NodeAt(dom, SubSeq(path, 1, k)).collapsed

\* A click on the toggle of a node that is on screen.
ToggleClick ==
  /\ tPc = "rendered"
  /\ \E n \in tDom :
       /\ n.container /\ ShownPath(tDom, n.path)
       /\ tDom' = setCollapsed(tDom, tValue, n.path, ~n.collapsed)
  /\ UNCHANGED <<tValue, tPc, treeFrame>>

\* expandAll(container)
TreeExpandAll ==
  /\ tPc = "rendered"
  /\ tDom' = SetCollapsedRecursive(tDom, tValue, <<>>, FALSE)
  /\ UNCHANGED <<tValue, tPc, treeFrame>>

\* collapseAll(container)
TreeCollapseAll ==
  /\ tPc = "rendered"
  /\ tDom' = SetCollapsedRecursive(tDom, tValue, <<>>, TRUE)
  /\ UNCHANGED <<tValue, tPc, treeFrame>>

NextTree == RenderTree \/ ToggleClick \/ TreeExpandAll \/ TreeCollapseAll

SpecTree == InitTree /\ [][NextTree]_vars

----------------------------------------------------------------------------

(* The photo cutter of part_003: sliceImageFile, one action per stretch of  *)
(* code between two awaits.  A slice is the rectangle of the image drawn    *)
(* into the canvas, with the number in its file name; base name and         *)
(* extension are the same for all slices of a call.                         *)

ImgMaxW == 5
ImgMaxH == 3
ImgMaxK == 4

\* The argument k: a number n/d, or a value that is not a number.
KNumber(n, d) == [tag |-> "num", n |-> n, d |-> d]
KUndefined == [tag |-> "undefined", n |-> 0, d |-> 1]
KNaN == [tag |-> "NaN", n |-> 0, d |-> 1]

KArguments ==
  {KNumber(n, 1) : n \in -1..ImgMaxK}
    \cup {KNumber(5, 2), KNumber(-1, 2), KNumber(1, 2), KUndefined, KNaN}

\* k = Math.max(1, Math.floor(k || 1))
CoerceK(raw) ==
  IF raw.tag # "num" \/ raw.n = 0 THEN 1 ELSE Max(1, raw.n \div raw.d)

NoImage == [width |-> -1, height |-> -1]

\* side, x0 and y0 of the square tiles (lines 472-484).
SquareSide(w, h, k) == Min(h, w \div k)

SquareX0(w, h, k, align) ==
  LET totalW == SquareSide(w, h, k) * k
  IN  IF w > totalW
      THEN IF align = "left" THEN 0
           ELSE IF align = "right" THEN w - totalW
           ELSE (w - totalW) \div 2
      ELSE 0

SquareY0(w, h, k) ==
  IF h > SquareSide(w, h, k) THEN (h - SquareSide(w, h, k)) \div 2 ELSE 0

\* A mutation of SliceWidth: the last slice is as wide as the others.
SliceWidthEqual(w, k, i) == w \div k

\* sw of the i-th vertical slice (lines 500-504).
SliceWidth(w, k, i) ==
  LET sliceW == w \div k
      left == i * sliceW
  IN  IF i = k - 1 THEN w - left ELSE sliceW

\* The slice the i-th pass of the loop draws and pushes.
Slice(w, h, k, square, align, i) ==
  IF square
  THEN [part |-> i + 1, sx |-> SquareX0(w, h, k, align) + i * SquareSide(w, h, k),
        sy |-> SquareY0(w, h, k),
        sw |-> SquareSide(w, h, k), sh |-> SquareSide(w, h, k)]
  ELSE [part |-> i + 1, sx |-> i * (w \div k), sy |-> 0,
        sw |-> SliceWidth(w, k, i), sh |-> h]

InitSlicer ==
  /\ OthersIdle("slicer")
  /\ sFile \in {"image", "null"}
  /\ sKRaw \in KArguments
  /\ sSquare \in BOOLEAN
  /\ sAlign \in {"left", "right", "center"}
  /\ sImage = NoImage
  /\ sK = 0 /\ sI = 0 /\ sResults = <<>> /\ sDestroyed = 0
  /\ sError = "none"
  /\ sPc = "called"

Rejected(message) == sPc' = "rejected" /\ sError' = message

\* Lines 445-454: up to the await of loadImageFromFile.
SliceCall ==
  /\ sPc = "called"
  /\ IF sFile = "null"
     THEN Rejected("No file provided") /\ sK' = sK
     ELSE sPc' = "loading" /\ sK' = CoerceK(sKRaw) /\ sError' = sError
  /\ UNCHANGED <<sFile, sKRaw, sSquare, sAlign, sImage, sI, sResults, sDestroyed,
                 slicerFrame>>

\* loadImageFromFile rejects: sliceImageFile rejects with its error.
LoadFails ==
  /\ sPc = "loading"
  /\ Rejected("Unsupported image or failed to decode")
  /\ UNCHANGED <<sFile, sKRaw, sSquare, sAlign, sImage, sK, sI, sResults, sDestroyed,
                 slicerFrame>>

\* loadImageFromFile resolves with an image of w by h: lines 455-494 (square)
\* or 455-508, up to the first await of toBlob.
LoadSucceeds ==
  /\ sPc = "loading"
  /\ \E w \in 0..ImgMaxW, h \in 0..ImgMaxH :
       /\ sImage' = [width |-> w, height |-> h]
       /\ IF w <= 0 \/ h <= 0
          THEN sDestroyed' = sDestroyed + 1 /\ Rejected("Invalid image dimensions")
          ELSE IF sSquare /\ SquareSide(w, h, sK) <= 0
          THEN /\ sDestroyed' = sDestroyed + 1
               /\ Rejected("Image too small for requested number of square slices")
          ELSE sDestroyed' = sDestroyed /\ sPc' = "encoding" /\ sError' = sError
  /\ sI' = 0
  /\ UNCHANGED <<sFile, sKRaw, sSquare, sAlign, sK, sResults, slicerFrame>>

\* toBlob resolves: the slice is pushed; the loop goes on to the next await,
\* or ends, and then the image is destroyed and the results are returned.
EncodeSucceeds ==
  /\ sPc = "encoding"
  /\ sResults' = Append(sResults, Slice(sImage.width, sImage.height, sK, sSquare,
                                        sAlign, sI))
  /\ sI' = sI + 1
  /\ IF sI + 1 < sK
     THEN sPc' = "encoding" /\ sDestroyed' = sDestroyed
     ELSE sPc' = "resolved" /\ sDestroyed' = sDestroyed + 1
  /\ UNCHANGED <<sFile, sKRaw, sSquare, sAlign, sImage, sK, sError, slicerFrame>>

\* toBlob rejects (the callback got null): the await throws out of the loop.
EncodeFails ==
  /\ sPc = "encoding"
  /\ Rejected("Failed to encode image")
  /\ UNCHANGED <<sFile, sKRaw, sSquare, sAlign, sImage, sK, sI, sResults, sDestroyed,
                 slicerFrame>>

NextSlicer == SliceCall \/ LoadFails \/ LoadSucceeds \/ EncodeSucceeds \/ EncodeFails

SpecSlicer == InitSlicer /\ [][NextSlicer]_vars

----------------------------------------------------------------------------

(* sqlUpdateGenerator.js: generateUpdateStatements.  A record is an object  *)
(* of cells (strings, or null); the config is a record of the options read. *)

\* String(value ?? '')
StringOrEmpty(value) ==
  IF Kind(value) \in {"null", "undef"} THEN <<>> ELSE JsString(value)[2]

\* escapeSqlValue: every ' is doubled.
RECURSIVE escapeSqlValue(_)
escapeSqlValue(s) ==
  IF s = <<>> THEN <<>>
  ELSE (IF Head(s) = "'" THEN <<"'", "'">> ELSE <<Head(s)>>) \o escapeSqlValue(Tail(s))

formatValue(value, trimValues, quote) ==
  LET trimmed == IF trimValues THEN Trim(StringOrEmpty(value)) ELSE StringOrEmpty(value)
  IN  IF trimmed = <<>> THEN <<"N", "U", "L", "L">>
      ELSE IF ~quote THEN trimmed
      ELSE <<"'">> \o escapeSqlValue(trimmed) \o <<"'">>

\* config.whereColumns filtered, or [config.whereColumn], or [] (lines 133-135).
WhereColumnsOf(config) ==
  IF config.whereIsArray
  THEN SelectSeq(config.whereColumns, LAMBDA c : c # <<>> /\ Trim(c) # <<>>)
  ELSE IF config.whereColumn # <<>> THEN <<config.whereColumn>> ELSE <<>>

getQuoteForColumn(config, col) ==
  IF HasOwn(config.columnQuoteMap, col) THEN OwnValue(config.columnQuoteMap, col)[2]
  ELSE config.defaultQuote

shouldUpdateColumn(config, col) ==
  IF HasOwn(config.columnUpdateMap, col) THEN OwnValue(config.columnUpdateMap, col)[2]
  ELSE \A i \in 1..Len(WhereColumnsOf(config)) : WhereColumnsOf(config)[i] # col

\* value == null || String(value).trim() === '' for value = row[col]
IsMissing(row, col) ==
  LET value == GetProp(row, col)
  IN  Kind(value) \in {"null", "undef"} \/ Trim(JsString(value)[2]) = <<>>

\* `${col} = ${formatValue(value, ...)}`
Assignment(config, col, value) ==
  col \o <<" ", "=", " ">>
      \o formatValue(value, config.trimValues, getQuoteForColumn(config, col))

\* The statement of a row that is not skipped (lines 169-181).
StatementOf(config, row) ==
  LET keys == SelectSeq(OwnKeys(row), LAMBDA k : shouldUpdateColumn(config, k))
      where == WhereColumnsOf(config)
  IN  <<"U", "P", "D", "A", "T", "E", " ">> \o Trim(config.tableName)
        \o <<" ", "S", "E", "T", " ">>
        \o Join([i \in 1..Len(keys) |-> Assignment(config, keys[i], OwnValue(row, keys[i]))],
                <<",", " ">>)
        \o <<" ", "W", "H", "E", "R", "E", " ">>
        \o Join([i \in 1..Len(where) |->
                   Assignment(config, where[i], GetProp(row, where[i]))],
                <<" ", "A", "N", "D", " ">>)
        \o <<";">>

\* A mutation of RecordNumber: the index from 0.
RecordIndex(index) == index

\* index + 1: what is pushed to skipped for the record at `index` (from 0).
RecordNumber(index) == index + 1

\* The loop of lines 160-182 from the record at `index` (from 0) on.
RECURSIVE GenerateFrom(_, _, _, _, _)
GenerateFrom(records, config, index, statements, skipped) ==
  IF index >= Len(records) THEN [statements |-> statements, skipped |-> skipped]
  ELSE
    LET row == records[index + 1]
        where == WhereColumnsOf(config)
        missingWhere == SelectSeq(where, LAMBDA col : IsMissing(row, col))
        assignable == SelectSeq(OwnKeys(row), LAMBDA k : shouldUpdateColumn(config, k))
    IN  IF missingWhere # <<>> \/ assignable = <<>>
        THEN GenerateFrom(records, config, index + 1, statements,
                          Append(skipped, RecordNumber(index)))
        ELSE GenerateFrom(records, config, index + 1,
                          Append(statements, StatementOf(config, row)), skipped)

SqlThrown(message) == [status |-> "throw", error |-> message,
                       statements |-> <<>>, skipped |-> <<>>]

generateUpdateStatements(records, config) ==
  IF records = <<>> THEN SqlThrown("No data rows available.")
  ELSE IF Trim(config.tableName) = <<>> THEN SqlThrown("Table name is required.")
  ELSE IF WhereColumnsOf(config) = <<>>
  THEN SqlThrown("Select at least one column for the WHERE clause.")
  ELSE LET out == GenerateFrom(records, config, 0, <<>>, <<>>)
       IN  [status |-> "ok", error |-> "none",
            statements |-> out.statements, skipped |-> out.skipped]

SqlMaxRecords == 2

ColId == <<"i", "d">>

\* Records with a usable, a blank, a null and an absent id, with and without
\* another column.
SqlRecordPool ==
  { PlainObj(<<<<ColId, Str(<<"1">>)>>, <<KeyA, Str(<<"x">>)>>>>),
    PlainObj(<<<<ColId, Str(<<" ">>)>>, <<KeyA, Str(<<"x">>)>>>>),
    PlainObj(<<<<ColId, Str(<<"2">>)>>>>),
    PlainObj(<<<<KeyA, Str(<<"o", "'", "k">>)>>>>),
    PlainObj(<<<<ColId, Null>>, <<KeyA, Str(<<"x">>)>>>>),
    PlainObj(<<<<KeyA, Str(<<" ">>)>>, <<ColId, Str(<<" ", "3">>)>>>>) }

SqlWhereLists ==
  { <<>>, <<ColId>>, <<KeyA, ColId>>, <<<<" ">>, ColId>>, <<<<" ">>>>,
    <<ConstructorKey>>, <<ProtoKey>> }

SqlConfigs ==
  { [tableName |-> t, whereIsArray |-> TRUE, whereColumns |-> w, whereColumn |-> <<>>,
     columnUpdateMap |-> u, columnQuoteMap |-> PlainObj(<<>>),
     defaultQuote |-> q, trimValues |-> TRUE] :
      t \in {<<"t">>, <<" ">>}, w \in SqlWhereLists, q \in BOOLEAN,
      u \in {PlainObj(<<>>), PlainObj(<<<<ColId, Bool(TRUE)>>>>),
             PlainObj(<<<<KeyA, Bool(FALSE)>>>>)} }
  \cup
  { [tableName |-> <<"t">>, whereIsArray |-> FALSE, whereColumns |-> <<>>,
     whereColumn |-> c, columnUpdateMap |-> PlainObj(<<>>),
     columnQuoteMap |-> PlainObj(<<<<ColId, Bool(FALSE)>>>>),
     defaultQuote |-> TRUE, trimValues |-> tv] :
      c \in {<<>>, ColId, <<" ">>}, tv \in BOOLEAN }

InitSql ==
  /\ OthersIdle("sql")
  /\ qRecords \in SeqsUpTo(SqlRecordPool, SqlMaxRecords)
  /\ qConfig \in SqlConfigs
  /\ qResult = [status |-> "pending", error |-> "none",
                statements |-> <<>>, skipped |-> <<>>]
  /\ qPc = "ready"

\* generateUpdateStatements(qRecords, qConfig)
SqlGenerate ==
  /\ qPc = "ready"
  /\ qResult' = generateUpdateStatements(qRecords, qConfig)
  /\ qPc' = "done"
  /\ UNCHANGED <<qRecords, qConfig, sqlFrame>>

NextSql == SqlGenerate

SpecSql == InitSql /\ [][NextSql]_vars

----------------------------------------------------------------------------

(* Vocabulary of the properties *)

Range(s) == {s[i] : i \in 1..Len(s)}

Count(s, x) == Cardinality({i \in 1..Len(s) : s[i] = x})

IsPermutation(s, t) ==
  /\ Len(s) = Len(t)
  /\ \A i \in 1..Len(s) : Count(s, s[i]) = Count(t, s[i])

\* Two parsed JSON values are equal up to the order of object keys.
RECURSIVE DeepEqual(_, _)
DeepEqual(v, w) ==
  IF Kind(v) # Kind(w) THEN FALSE
  ELSE IF Kind(v) = "arr" THEN
    /\ Len(v[2]) = Len(w[2])
    /\ \A i \in 1..Len(v[2]) : DeepEqual(v[2][i], w[2][i])
  ELSE IF Kind(v) = "obj" THEN
    /\ Range(OwnKeys(v)) = Range(OwnKeys(w))
    /\ \A k \in Range(OwnKeys(v)) : DeepEqual(OwnValue(v, k), OwnValue(w, k))
  ELSE v = w

Done == pc = "done"

\* The call of the state's comparator on (a, b) with the options o.
CompareWith(a, b, o) ==
  CASE kind = "json" -> jsonCompare(a, b, o.mode)
    [] kind = "xml" -> xmlCompare(a, b, o.orderSensitive)
    [] kind = "csv" -> csvCompare(a, b, o.delimiter, o.ignoreHeader, o.ignoreEmpty)

\* A result that reports at least one difference.
Reports(res) ==
  IF kind = "csv"
  THEN res.missingInFile1 # <<>> \/ res.missingInFile2 # <<>>
  ELSE res.status = "ok" /\ res.out # <<>>

\* A result that reports no difference.
NoDifference(res) ==
  IF kind = "csv"
  THEN res.missingInFile1 = <<>> /\ res.missingInFile2 = <<>>
  ELSE res = Returned(<<>>)

WellFormed(doc) ==
  CASE kind = "json" -> JSONparse(doc).ok
    [] kind = "xml" -> doc # ParserError
    [] kind = "csv" -> TRUE

ValA == JSONparse(docA).val
ValB == JSONparse(docB).val

TextOf(v) == JSONstringify(v)

----------------------------------------------------------------------------
(* The properties *)

\* C1 (reflexivity): comparing a well-formed document with itself yields no
\* difference: the JSON compare in the modes exact, full and ordered, the XML
\* compare for both values of orderSensitive, the CSV compare for every
\* combination of options.
C1_Reflexivity ==
  (/\ Done
   /\ docA = docB
   /\ WellFormed(docA)
   /\ (kind = "json" => opts.mode \in {"exact", "full", "ordered"}))
  => NoDifference(result)

\* A nested array of objects compared with itself in full mode.
C1_Witness ==
  /\ Done /\ kind = "json" /\ opts.mode = "full"
  /\ docA = docB
  /\ docA = TextOf(Arr(<<PlainObj(<<<<KeyA, Num(2)>>, <<KeyB, Num(1)>>>>),
                         PlainObj(<<<<KeyB, Num(2)>>, <<KeyA, Num(1)>>>>)>>))
  /\ result = Returned(<<>>)

\* C2 (exact-mode byte sensitivity): two JSON texts that parse to the same
\* value and are not character for character identical give a non-empty list
\* in exact mode and the empty list in full mode.
C2_ExactByteSensitivity ==
  (/\ Done /\ kind = "json" /\ opts.mode = "exact"
   /\ WellFormed(docA) /\ WellFormed(docB)
   /\ ValA = ValB
   /\ docA # docB)
  => (/\ result.status = "ok" /\ result.out # <<>>
      /\ jsonCompare(docA, docB, "full") = Returned(<<>>))

SameAttributeSet(e1, e2) == Range(e1[3]) = Range(e2[3])

HasRecord(res, label) == \E i \in 1..Len(res.out) : res.out[i][1] = label

\* C3 (attribute order): two elements with the same tag, the same children
\* and the same set of attribute name/value pairs, written in any order, give
\* no "Attrib diff" record, for both values of orderSensitive.
C3_AttributeOrderIrrelevant ==
  (/\ Done /\ kind = "xml"
   /\ WellFormed(docA) /\ WellFormed(docB)
   /\ docA[2] = docB[2] /\ docA[4] = docB[4]
   /\ SameAttributeSet(docA, docB))
  => ~HasRecord(result, "Attrib diff at")

\* C4 (sibling order): with orderSensitive = false, a document compared with
\* the same document whose root children are permuted yields no difference.
C4_SiblingOrderIrrelevant ==
  (/\ Done /\ kind = "xml" /\ ~opts.orderSensitive
   /\ WellFormed(docA) /\ WellFormed(docB)
   /\ docA[2] = docB[2] /\ docA[3] = docB[3]
   /\ IsPermutation(docA[4], docB[4]))
  => result = Returned(<<>>)

\* C5 (array order): for a JSON array A and a permutation P of it, full mode
\* yields the empty list, and ordered mode yields a non-empty list whenever
\* some A[i] is not deep-equal to P[i].
C5_ArrayOrder ==
  (/\ Done /\ kind = "json"
   /\ WellFormed(docA) /\ WellFormed(docB)
   /\ IsArray(ValA) /\ IsArray(ValB)
   /\ IsPermutation(ValA[2], ValB[2]))
  => /\ opts.mode = "full" => result = Returned(<<>>)
     /\ (/\ opts.mode = "ordered"
         /\ \E i \in 1..Len(ValA[2]) : ~DeepEqual(ValA[2][i], ValB[2][i]))
        => (result.status = "ok" /\ result.out # <<>>)

RecognizedModes == {"exact", "full", "ordered", "order", "arrays", "preserve"}

\* C6 (mode fallback): when opts.mode is absent or is not a recognized mode
\* name, compare returns what it returns in mode full.
C6_UnrecognizedModeIsFull ==
  (/\ Done /\ kind = "json"
   /\ toLowerCase(opts.mode) \notin RecognizedModes)
  => result = jsonCompare(docA, docB, "full")

\* C7 (symmetry of detection): if compare(A, B) reports at least one
\* difference, compare(B, A) with the same options reports at least one too,
\* for the three comparators and all their options.
C7_SymmetryOfDetection ==
  (Done /\ Reports(result)) => Reports(CompareWith(docB, docA, opts))

\* A longer first array: "only in first" one way, "only in second" the other.
C7_Witness ==
  /\ Done /\ kind = "json" /\ opts.mode = "ordered"
  /\ docA = TextOf(Arr(<<Num(1), Num(2), Num(1)>>))
  /\ docB = TextOf(Arr(<<Num(1)>>))
  /\ Len(result.out) = 2
  /\ result.out[1][2] = "first"
  /\ CompareWith(docB, docA, opts).out[1][2] = "second"

EffA ==
  EffectiveRows(parseCSV(docA, opts.delimiter, opts.ignoreEmpty), opts.ignoreHeader)
EffB ==
  EffectiveRows(parseCSV(docB, opts.delimiter, opts.ignoreEmpty), opts.ignoreHeader)

Monus(a, b) == IF a > b THEN a - b ELSE 0

\* C8 (multiset row difference): a row occurring n1 times in the effective
\* rows of the first input and n2 times in those of the second occurs
\* max(0, n1 - n2) times in missingInFile2 and max(0, n2 - n1) times in
\* missingInFile1; the two lists hold no other row and share no row.
C8_MultisetDifference ==
  (Done /\ kind = "csv") =>
    /\ \A r \in Range(EffA) \cup Range(EffB) :
         /\ Count(result.missingInFile2, r) = Monus(Count(EffA, r), Count(EffB, r))
         /\ Count(result.missingInFile1, r) = Monus(Count(EffB, r), Count(EffA, r))
    /\ Range(result.missingInFile2) \subseteq Range(EffA)
    /\ Range(result.missingInFile1) \subseteq Range(EffB)
    /\ Range(result.missingInFile1) \cap Range(result.missingInFile2) = {}

\* Rows [a, a, b] against [a, b, b].
C8_Witness ==
  /\ Done /\ kind = "csv" /\ ~opts.ignoreHeader /\ opts.delimiter = ","
  /\ docA = CsvText(<<<<"a">>, <<"a">>, <<"b">>>>)
  /\ docB = CsvText(<<<<"a">>, <<"b">>, <<"b">>>>)
  /\ result.missingInFile2 = << <<<<"a">>>> >>
  /\ result.missingInFile1 = << <<<<"b">>>> >>

\* Every cell of the row is empty after trimming.
AllBlank(row) == \A i \in 1..Len(row) : Trim(row[i]) = <<>>

\* C9 (empty rows): with ignoreEmpty on, no row all of whose cells are empty
\* after trimming takes part in the comparison, whatever its number of cells.
C9_BlankRowsDropped ==
  (Done /\ kind = "csv" /\ opts.ignoreEmpty) =>
    /\ \A r \in Range(parseCSV(docA, opts.delimiter, TRUE)) : ~AllBlank(r)
    /\ \A r \in Range(parseCSV(docB, opts.delimiter, TRUE)) : ~AllBlank(r)
    /\ \A r \in Range(result.missingInFile1) \cup Range(result.missingInFile2) :
         ~AllBlank(r)

\* C10 (key order): two JSON documents that are equal up to the order of the
\* keys of their objects, at any depth, give the empty list in full and in
\* ordered mode.
C10_KeyOrderIrrelevant ==
  (/\ Done /\ kind = "json" /\ opts.mode \in {"full", "ordered"}
   /\ WellFormed(docA) /\ WellFormed(docB)
   /\ DeepEqual(ValA, ValB))
  => result = Returned(<<>>)

\* Objects inside an array, the keys of one of them in the other order, in
\* full mode.
C10_Witness ==
  /\ Done /\ kind = "json" /\ opts.mode = "full"
  /\ docA = TextOf(Arr(<<PlainObj(<<<<KeyA, Num(1)>>, <<KeyB, Num(2)>>>>),
                         PlainObj(<<<<KeyA, Num(2)>>, <<KeyB, Num(1)>>>>)>>))
  /\ docB = TextOf(Arr(<<PlainObj(<<<<KeyB, Num(2)>>, <<KeyA, Num(1)>>>>),
                         PlainObj(<<<<KeyA, Num(2)>>, <<KeyB, Num(1)>>>>)>>))
  /\ result = Returned(<<>>)

IndexPath(i) == <<"[">> \o NumToStr(i) \o <<"]">>

\* C11 (length-mismatch enumeration): two arrays of lengths m < n compared
\* position by position give the records of the common indices 0..m-1
\* followed by exactly n-m "Item only in" records, one per index m..n-1 in
\* ascending order, each naming the longer side; the records of the common
\* indices hold no record for an index of the top-level array.
C11_LengthMismatchEnumeration ==
  (/\ Done /\ kind = "json" /\ opts.mode \in {"ordered", "arrays"}
   /\ WellFormed(docA) /\ WellFormed(docB)
   /\ IsArray(ValA) /\ IsArray(ValB)
   /\ Len(ValA[2]) # Len(ValB[2]))
  => LET la == Len(ValA[2])
         lb == Len(ValB[2])
         m == IF la < lb THEN la ELSE lb
         n == IF la < lb THEN lb ELSE la
         side == IF la > lb THEN "first" ELSE "second"
         common == jsonCompare(TextOf(Arr(SubSeq(ValA[2], 1, m))),
                               TextOf(Arr(SubSeq(ValB[2], 1, m))), "ordered")
     IN  /\ result.status = "ok"
         /\ common.status = "ok"
         /\ \A i \in 1..Len(common.out) :
              ~(common.out[i][1] = "Item only in"
                /\ common.out[i][3] \in {IndexPath(j) : j \in 0..n})
         /\ result.out = common.out \o
              [j \in 1..(n - m) |-> <<"Item only in", side, IndexPath(m + j - 1)>>]

\* [2] against [1,2,1]: one record for index 0, then indices 1 and 2 of the
\* second array.
C11_Witness ==
  /\ Done /\ kind = "json" /\ opts.mode = "ordered"
  /\ docA = TextOf(Arr(<<Num(2)>>))
  /\ docB = TextOf(Arr(<<Num(1), Num(2), Num(1)>>))
  /\ Len(result.out) = 3
  /\ result.out[1][1] = "Diff at"
  /\ result.out[2] = <<"Item only in", "second", <<"[", "1", "]">>>>
  /\ result.out[3] = <<"Item only in", "second", <<"[", "2", "]">>>>

\* JSON text of the map of all the attributes of a DOM element.
AttributesText(e) ==
  TextOf(PlainObj([i \in 1..Len(e[3]) |-> <<e[3][i][1], Str(e[3][i][2])>>]))

AttribRecordsAt(res, path) ==
  {i \in 1..Len(res.out) : res.out[i][1] = "Attrib diff at" /\ res.out[i][2] = path}

\* C12 (attribute atomicity): when the two root elements differ in their
\* attributes (a changed value, an added or a removed name, in any number),
\* the diff holds exactly one "Attrib diff" record for the root path, and it
\* carries the two whole attribute maps; there is never more than one.
C12_AttributeAtomicity ==
  (/\ Done /\ kind = "xml"
   /\ WellFormed(docA) /\ WellFormed(docB))
  => LET at == AttribRecordsAt(result, <<"/">> \o docA[2])
     IN  /\ Cardinality(at) <= 1
         /\ Range(docA[3]) # Range(docB[3])
            => /\ Cardinality(at) = 1
               /\ \A i \in at :
                    /\ result.out[i][3] = AttributesText(docA)
                    /\ result.out[i][4] = AttributesText(docB)

ParseErrors ==
  { "File A is not valid JSON", "File B is not valid JSON",
    "XML A parse error", "XML B parse error" }

\* The call threw `what` and returned no record.
ThrewOnly(res, what) == res.status = "throw" /\ res.error = what /\ res.out = <<>>

\* C13 (parse failure): in a structural mode an invalid first text makes the
\* JSON compare throw the error naming File A, whatever the second text is;
\* a valid first text and an invalid second make it throw the error naming
\* File B; nothing is returned in either case, and two valid texts raise no
\* parse error.  The XML compare does the same with XML A and XML B.  In
\* exact mode nothing is parsed and the call returns a list.
C13_ParseFailureNamesSide ==
  Done =>
    /\ (kind = "json" /\ toLowerCase(opts.mode) # "exact") =>
         /\ ~WellFormed(docA) => ThrewOnly(result, "File A is not valid JSON")
         /\ (WellFormed(docA) /\ ~WellFormed(docB))
              => ThrewOnly(result, "File B is not valid JSON")
         /\ (WellFormed(docA) /\ WellFormed(docB)) => result.error \notin ParseErrors
    /\ (kind = "json" /\ toLowerCase(opts.mode) = "exact") => result.status = "ok"
    /\ kind = "xml" =>
         /\ ~WellFormed(docA) => ThrewOnly(result, "XML A parse error")
         /\ (WellFormed(docA) /\ ~WellFormed(docB))
              => ThrewOnly(result, "XML B parse error")
         /\ (WellFormed(docA) /\ WellFormed(docB)) => result.status = "ok"

\* Both texts are invalid, in a structural mode: the error names File A.
C13_Witness ==
  /\ Done /\ kind = "json" /\ opts.mode = "ordered"
  /\ docA = <<"[", "1", ",">>
  /\ docB = <<"0", "1">>
  /\ result = Thrown("File A is not valid JSON")

\* C14 (the differs never throw): for every two valid JSON texts the
\* structural compare runs findDifferences on the two canonical values to
\* completion and returns a list of records; likewise the XML compare for
\* every two well-formed documents.
C14_DifferNeverThrows ==
  (/\ Done /\ kind \in {"json", "xml"}
   /\ WellFormed(docA) /\ WellFormed(docB))
  => result.status = "ok"

LinesA == SplitLines(docA)
LinesB == SplitLines(docB)

\* The line indices below i that lineDiff has a removed or added record for.
RemovedBelow(i) ==
  {j \in 1..(i - 1) : j <= Len(LinesA) /\ (j > Len(LinesB) \/ LinesA[j] # LinesB[j])}
AddedBelow(i) ==
  {j \in 1..(i - 1) : j <= Len(LinesB) /\ (j > Len(LinesA) \/ LinesA[j] # LinesB[j])}

\* The number of records emitted for the line indices below i.
RecordsBelow(i) == Cardinality(RemovedBelow(i)) + Cardinality(AddedBelow(i))

\* C15 (line diff shape): in exact mode, with the texts split into the lines
\* a and b, the list holds in ascending line order "- a[i]" then "+ b[i]" for
\* every common index with a[i] # b[i], "- a[i]" for every index past the end
\* of b, "+ b[i]" for every index past the end of a, and nothing else: its
\* length is twice the number of differing common indices plus |la - lb|.
C15_LineDiffShape ==
  (Done /\ kind = "json" /\ opts.mode = "exact") =>
    LET la == Len(LinesA)
        lb == Len(LinesB)
        min == IF la < lb THEN la ELSE lb
        max == IF la < lb THEN lb ELSE la
        differing == {i \in 1..min : LinesA[i] # LinesB[i]}
    IN  /\ result.status = "ok"
        /\ Len(result.out) = 2 * Cardinality(differing) + (max - min)
        /\ \A i \in 1..max :
             LET at == RecordsBelow(i)
             IN  /\ i \in differing =>
                      /\ result.out[at + 1] = <<"-", LinesA[i]>>
                      /\ result.out[at + 2] = <<"+", LinesB[i]>>
                 /\ i > lb => result.out[at + 1] = <<"-", LinesA[i]>>
                 /\ i > la => result.out[at + 1] = <<"+", LinesB[i]>>

\* Two lines against one: the first line differs, the second is only in the
\* first text.
C15_Witness ==
  /\ Done /\ kind = "json" /\ opts.mode = "exact"
  /\ docA = <<"[", "1", ",", "\n", "2", "]">>
  /\ docB = <<"[", "1", ",", "2", "]">>
  /\ result.out = << <<"-", <<"[", "1", ",">>>>, <<"+", <<"[", "1", ",", "2", "]">>>>,
                     <<"-", <<"2", "]">>>> >>

RowsA == parseCSV(docA, opts.delimiter, opts.ignoreEmpty)
RowsB == parseCSV(docB, opts.delimiter, opts.ignoreEmpty)

\* The rows without the first one; no rows stay no rows.
WithoutFirst(rows) == IF rows = <<>> THEN <<>> ELSE SubSeq(rows, 2, Len(rows))

\* `res` is the multiset difference of the row lists ra and rb.
IsRowDifference(res, ra, rb) ==
  /\ \A r \in Range(ra) \cup Range(rb) :
       /\ Count(res.missingInFile2, r) = Monus(Count(ra, r), Count(rb, r))
       /\ Count(res.missingInFile1, r) = Monus(Count(rb, r), Count(ra, r))
  /\ Range(res.missingInFile2) \subseteq Range(ra)
  /\ Range(res.missingInFile1) \subseteq Range(rb)

\* C16 (header exclusion): with ignoreHeader the result is the difference of
\* the two row lists each without its first retained row, whether or not the
\* two first rows are equal, so two inputs that differ only in their first
\* row compare as equal; without ignoreHeader it is the difference of the
\* whole row lists.
C16_HeaderExclusion ==
  (Done /\ kind = "csv") =>
    /\ opts.ignoreHeader =>
         /\ IsRowDifference(result, WithoutFirst(RowsA), WithoutFirst(RowsB))
         /\ WithoutFirst(RowsA) = WithoutFirst(RowsB) => NoDifference(result)
    /\ ~opts.ignoreHeader => IsRowDifference(result, RowsA, RowsB)

\* Headers a and b over the same data row: no difference with ignoreHeader.
C16_Witness ==
  /\ Done /\ kind = "csv" /\ opts.ignoreHeader /\ opts.delimiter = ","
  /\ docA = CsvText(<<<<"a">>, <<"b">>>>)
  /\ docB = CsvText(<<<<"b">>, <<"b">>>>)
  /\ NoDifference(result)
  /\ Reports(csvCompare(docA, docB, ",", FALSE, TRUE))

\* Two rows have the same number of cells and equal cells at every position.
SameCells(r1, r2) ==
  /\ Len(r1) = Len(r2)
  /\ \A i \in 1..Len(r1) : r1[i] = r2[i]

\* C17 (row identity key): two rows of the inputs get the same key from toKey
\* iff they have the same cells in the same order; decoding the key of a row
\* gives the row back; every row of the result is cell for cell a row of the
\* effective rows of the input it is reported for.
C17_KeyInjective ==
  (Done /\ kind = "csv") =>
    /\ \A r1 \in Range(RowsA) \cup Range(RowsB) :
         /\ KeyToRow(toKey(r1)) = r1
         /\ \A r2 \in Range(RowsA) \cup Range(RowsB) :
              (toKey(r1) = toKey(r2)) <=> SameCells(r1, r2)
    /\ \A i \in 1..Len(result.missingInFile2) :
         \E r \in Range(EffA) : SameCells(result.missingInFile2[i], r)
    /\ \A i \in 1..Len(result.missingInFile1) :
         \E r \in Range(EffB) : SameCells(result.missingInFile1[i], r)

\* The one-cell row "a,b" against the two-cell row a,b: both are reported.
C17_Witness ==
  /\ Done /\ kind = "csv" /\ opts.delimiter = "," /\ ~opts.ignoreHeader
  /\ docA = <<"\"", "a", ",", "b", "\"">>
  /\ docB = <<"a", ",", "b">>
  /\ result.missingInFile2 = << <<<<"a", ",", "b">>>> >>
  /\ result.missingInFile1 = << <<<<"a">>, <<"b">>>> >>
  /\ toKey(RowsA[1]) # toKey(RowsB[1])

IsScalar(v) == Kind(v) \in {"null", "bool", "num", "str"}

KeysOf(o) == Range(OwnKeys(o))

\* What a record is about: its label, its side where it has one, its path.
RecordHead(rec) ==
  IF rec[1] = "Diff at" THEN <<rec[1], rec[2]>> ELSE <<rec[1], rec[2], rec[3]>>

RecordPath(rec) == IF rec[1] = "Diff at" THEN rec[2] ELSE rec[3]

\* The records the keyed comparison of two objects with scalar members owes.
KeyedRecordHeads(o1, o2) ==
  {<<"Key only in", "first", k>> : k \in KeysOf(o1) \ KeysOf(o2)}
  \cup {<<"Key only in", "second", k>> : k \in KeysOf(o2) \ KeysOf(o1)}
  \cup {<<"Diff at", k>> :
          k \in {x \in KeysOf(o1) \cap KeysOf(o2) : OwnValue(o1, x) # OwnValue(o2, x)}}

\* C18 (keyed comparison): for two objects whose members are scalars, the
\* list holds, in ascending order of the keys, exactly one "Key only in"
\* record naming the side for every key that is an own key of one object
\* only, one "Diff at" record for every common key with different values,
\* and nothing else, whatever the key strings are (names that every object
\* inherits, such as constructor, included).
C18_KeyedComparison ==
  (/\ Done /\ kind = "json" /\ opts.mode \in {"full", "ordered"}
   /\ WellFormed(docA) /\ WellFormed(docB)
   /\ isObj(ValA) /\ isObj(ValB)
   /\ \A k \in KeysOf(ValA) : IsScalar(OwnValue(ValA, k))
   /\ \A k \in KeysOf(ValB) : IsScalar(OwnValue(ValB, k)))
  => /\ result.status = "ok"
     /\ {RecordHead(result.out[i]) : i \in 1..Len(result.out)}
          = KeyedRecordHeads(ValA, ValB)
     /\ Len(result.out) = Cardinality(KeyedRecordHeads(ValA, ValB))
     /\ \A i \in 1..Len(result.out) : \A j \in (i + 1)..Len(result.out) :
          StrLess(RecordPath(result.out[i]), RecordPath(result.out[j]))

\* The permutations of 1..n.
Permutations(n) == {p \in [1..n -> 1..n] : \A i, j \in 1..n : p[i] = p[j] => i = j}

\* Two parsed JSON values are equal up to the order of object keys and the
\* order of array elements.
RECURSIVE DeepEqualUnordered(_, _)
DeepEqualUnordered(v, w) ==
  IF Kind(v) # Kind(w) THEN FALSE
  ELSE IF Kind(v) = "arr" THEN
    /\ Len(v[2]) = Len(w[2])
    /\ \E p \in Permutations(Len(v[2])) :
         \A i \in 1..Len(v[2]) : DeepEqualUnordered(v[2][i], w[2][p[i]])
  ELSE IF Kind(v) = "obj" THEN
    /\ KeysOf(v) = KeysOf(w)
    /\ \A k \in KeysOf(v) : DeepEqualUnordered(OwnValue(v, k), OwnValue(w, k))
  ELSE v = w

\* C19 (no false negatives): for two valid JSON texts, the empty list in
\* ordered mode means the two parsed values are deep-equal up to the order of
\* object keys, and the empty list in full mode means they are deep-equal up
\* to the order of object keys and of array elements, whatever the keys are
\* (a key named __proto__ included).
C19_NoFalseNegatives ==
  (/\ Done /\ kind = "json"
   /\ WellFormed(docA) /\ WellFormed(docB)
   /\ result = Returned(<<>>))
  => /\ opts.mode = "ordered" => DeepEqual(ValA, ValB)
     /\ opts.mode = "full" => DeepEqualUnordered(ValA, ValB)

\* The two values are of the same type and equal.
SameTypeAndValue(v, w) == Kind(v) = Kind(w) /\ v = w

DiffRecordsAt(res, path) ==
  {i \in 1..Len(res.out) : res.out[i][1] = "Diff at" /\ res.out[i][2] = path}

\* C20 (strict scalar comparison): two scalars at the same path give exactly
\* one "Diff at" record for that path when they differ in type or in value,
\* and no record when they are of the same type and equal: at the root, where
\* the record is then the whole list, at every common index of two arrays,
\* and at every common key of the two canonical objects the differ is given.
C20_StrictScalarCompare ==
  (/\ Done /\ kind = "json" /\ opts.mode \in {"ordered", "arrays"}
   /\ WellFormed(docA) /\ WellFormed(docB))
  => /\ (IsScalar(ValA) /\ IsScalar(ValB)) =>
          /\ result.status = "ok"
          /\ SameTypeAndValue(ValA, ValB) => result.out = <<>>
          /\ ~SameTypeAndValue(ValA, ValB) =>
               /\ Len(result.out) = 1
               /\ DiffRecordsAt(result, <<>>) = {1}
     /\ (IsArray(ValA) /\ IsArray(ValB)) =>
          \A i \in 1..Len(ValA[2]) :
            (i <= Len(ValB[2]) /\ IsScalar(ValA[2][i]) /\ IsScalar(ValB[2][i]))
            => Cardinality(DiffRecordsAt(result, IndexPath(i - 1)))
                 = IF SameTypeAndValue(ValA[2][i], ValB[2][i]) THEN 0 ELSE 1
     /\ (isObj(ValA) /\ isObj(ValB)) =>
          LET s1 == sortJson(ValA, "ordered")
              s2 == sortJson(ValB, "ordered")
          IN  \A k \in KeysOf(s1) \cap KeysOf(s2) :
                (IsScalar(OwnValue(s1, k)) /\ IsScalar(OwnValue(s2, k)))
                => Cardinality(DiffRecordsAt(result, k))
                     = IF SameTypeAndValue(OwnValue(s1, k), OwnValue(s2, k))
                       THEN 0 ELSE 1

\* The string "1" against the number 1: one record, with the quoted string.
C20_Witness ==
  /\ Done /\ kind = "json" /\ opts.mode = "ordered"
  /\ docA = <<"\"", "1", "\"">>
  /\ docB = <<"1">>
  /\ result.out = << <<"Diff at", <<>>, <<"\"", "1", "\"">>, <<"1">>>> >>

\* The number of nodes of a JSON tree: the value and, for an array or an
\* object, the nodes of its elements or of its own members.
RECURSIVE JsonNodes(_)
RECURSIVE JsonNodesOfAll(_)
JsonNodesOfAll(vs) ==
  IF vs = <<>> THEN 0 ELSE JsonNodes(Head(vs)) + JsonNodesOfAll(Tail(vs))

JsonNodes(v) ==
  CASE Kind(v) = "arr" -> 1 + JsonNodesOfAll(v[2])
    [] Kind(v) = "obj" -> 1 + JsonNodesOfAll([i \in 1..Len(v[2]) |-> v[2][i][2]])
    [] OTHER -> 1

\* The number of nodes of a normalized XML tree: elements and kept texts.
RECURSIVE XmlNodes(_)
RECURSIVE XmlNodesOfAll(_)
XmlNodesOfAll(ns) ==
  IF ns = <<>> THEN 0 ELSE XmlNodes(Head(ns)) + XmlNodesOfAll(Tail(ns))

XmlNodes(n) == IF Kind(n) = "str" THEN 1 ELSE 1 + XmlNodesOfAll(n[4])

\* The canonical tree findDifferences is given for a parsed value.
CanonicalOf(v, optsMode) ==
  sortJson(v, IF ResolveMode(optsMode) = "full" THEN "full" ELSE "ordered")

\* C21 (finite and bounded): the structural JSON compare and the XML compare
\* of two well-formed documents yield at most as many records as the two
\* canonical trees (what sortJson, what normalize returns) have nodes
\* together, and calling them again on the same inputs gives the same
\* records in the same order.
C21_BoundedAndRepeatable ==
  (/\ Done /\ kind \in {"json", "xml"}
   /\ kind = "json" => toLowerCase(opts.mode) # "exact"
   /\ WellFormed(docA) /\ WellFormed(docB))
  => /\ kind = "json" =>
          Len(result.out) <= JsonNodes(CanonicalOf(ValA, opts.mode))
                               + JsonNodes(CanonicalOf(ValB, opts.mode))
     /\ kind = "xml" =>
          Len(result.out) <= XmlNodes(normalize(docA, opts.orderSensitive))
                               + XmlNodes(normalize(docB, opts.orderSensitive))
     /\ CompareWith(docA, docB, opts) = result

\* An empty array against three elements: three records, five nodes.
C21_Witness ==
  /\ Done /\ kind = "json" /\ opts.mode = "ordered"
  /\ docA = TextOf(Arr(<<>>))
  /\ docB = TextOf(Arr(<<Num(1), Num(2), Num(1)>>))
  /\ Len(result.out) = 3
  /\ JsonNodes(ValA) + JsonNodes(ValB) = 5

\* The addresses of the arrays and objects a value is made of.
RECURSIVE Reach(_, _)
Reach(h, x) ==
  IF Kind(x) # "ref" THEN {}
  ELSE LET c == h[x[2]]
           parts == IF Kind(c) = "arr" THEN c[2]
                    ELSE [i \in 1..Len(c[2]) |-> c[2][i][2]] \o <<c[3]>>
       IN  {x[2]} \cup UNION {Reach(h, parts[i]) : i \in 1..Len(parts)}

\* C22 (no mutation): at every step of the structural compare the cells that
\* JSON.parse built are as it built them, so the two parsed values are
\* unchanged (the order of the elements of their arrays included); what
\* sortJson returns is made of cells allocated after the parse only; and
\* findDifferences leaves every cell as it is.
C22_InputsNotMutated ==
  heapPc \in {"first", "sorted", "diffed"} =>
    LET before == ParsedHeap(texts[1], texts[2])
    IN  /\ SubSeq(heap, 1, Len(before.heap)) = before.heap
        /\ parsed = before.vals
        /\ Deref(heap, parsed[1]) = JSONparse(texts[1]).val
        /\ Deref(heap, parsed[2]) = JSONparse(texts[2]).val
        /\ \A i \in 1..Len(sorted) :
             \A a \in Reach(heap, sorted[i]) : a > Len(before.heap)
        /\ heapPc = "diffed" =>
             heap = sortJsonH(sortJsonH(before.heap, parsed[1], heapMode).heap,
                              parsed[2], heapMode).heap

\* [[2,1],[1]] has been canonicalized in full mode: the result is
\* [[1,2],[1]], the parsed value still [[2,1],[1]].
C22_Witness ==
  /\ heapPc = "diffed" /\ heapMode = "full"
  /\ texts[1] = JSONstringify(Arr(<<Arr(<<Num(2), Num(1)>>), Arr(<<Num(1)>>)>>))
  /\ Deref(heap, sorted[1]) = Arr(<<Arr(<<Num(1), Num(2)>>), Arr(<<Num(1)>>)>>)
  /\ Deref(heap, parsed[1]) = Arr(<<Arr(<<Num(2), Num(1)>>), Arr(<<Num(1)>>)>>)

\* The name a child adds to the path of its parent: its tag, "#text" for text.
PathTag(c) == IF Kind(c) = "str" THEN <<"#", "t", "e", "x", "t">> ELSE c[2]

RECURSIVE ElementPairs(_, _, _)
RECURSIVE ElementPairsOfAll(_, _, _, _)

\* The pairs of elements at the same position of two normalized trees, each
\* <<path, first, second>>, children paired by index up to the shorter list.
ElementPairs(n1, n2, path) ==
  IF Kind(n1) = "str" \/ Kind(n2) = "str" THEN <<>>
  ELSE <<<<path, n1, n2>>>> \o ElementPairsOfAll(n1[4], n2[4], path, 1)

ElementPairsOfAll(c1, c2, path, i) ==
  IF i > Len(c1) \/ i > Len(c2) THEN <<>>
  ELSE ElementPairs(c1[i], c2[i], path \o <<"/">> \o PathTag(c1[i]))
         \o ElementPairsOfAll(c1, c2, path, i + 1)

\* The name/value pairs of a normalized attribute map.
AttribPairs(e) == {<<k, OwnValue(e[3], k)>> : k \in Range(OwnKeys(e[3]))}

HasRecordAt(res, label, path) ==
  \E i \in 1..Len(res.out) : res.out[i][1] = label /\ res.out[i][2] = path

\* What the diff of a pair of elements with different tags holds for the
\* children of the pair: every difference between children at the same index
\* and every child without a partner has its record, under the path of the
\* pair extended by the tag of the first document's child.
ChildrenCompared(res, path, e1, e2) ==
  /\ \A c \in 1..Min(Len(e1[4]), Len(e2[4])) :
       LET a == e1[4][c]
           b == e2[4][c]
           p == path \o <<"/">> \o PathTag(a)
       IN  IF Kind(a) = "str" \/ Kind(b) = "str"
           THEN a # b => HasRecordAt(res, "Text diff at", p)
           ELSE /\ a[2] # b[2] => <<"Tag diff at", p, a[2], b[2]>> \in Range(res.out)
                /\ AttribPairs(a) # AttribPairs(b)
                   => HasRecordAt(res, "Attrib diff at", p)
  /\ \A c \in (Len(e2[4]) + 1)..Len(e1[4]) :
       <<"Extra element", path \o <<"/">> \o PathTag(e1[4][c]), "first">>
         \in Range(res.out)
  /\ \A c \in (Len(e1[4]) + 1)..Len(e2[4]) :
       <<"Extra element", path \o <<"/">> \o PathTag(e2[4][c]), "second">>
         \in Range(res.out)

\* The pairs of elements with different tags met by the compare of the state.
MismatchedPairs ==
  LET pairs == ElementPairs(normalize(docA, opts.orderSensitive),
                            normalize(docB, opts.orderSensitive),
                            <<"/">> \o docA[2])
  IN  SelectSeq(pairs, LAMBDA q : q[2][2] # q[3][2])

\* C23 (tag mismatch does not stop the comparison): for two elements at the
\* same position with different tag names the diff holds exactly one
\* "Tag diff" record for the pair, and the attributes and the children of the
\* pair are compared all the same: a difference in the attributes has its
\* "Attrib diff" record (for the roots: with the two whole attribute maps),
\* and the children are walked by position, their records under the path of
\* the pair extended by the first document's child tag or "#text".  Stated of
\* the calls that return a list.
C23_TagMismatchContinues ==
  (/\ Done /\ kind = "xml"
   /\ WellFormed(docA) /\ WellFormed(docB)
   /\ result.status = "ok")
  => /\ \A i \in 1..Len(MismatchedPairs) :
          LET q == MismatchedPairs[i]
          IN  /\ Count(result.out, <<"Tag diff at", q[1], q[2][2], q[3][2]>>)
                   = Count(MismatchedPairs, q)
                     + Cardinality({j \in 1..Len(MismatchedPairs) :
                                      /\ MismatchedPairs[j] # q
                                      /\ MismatchedPairs[j][1] = q[1]
                                      /\ MismatchedPairs[j][2][2] = q[2][2]
                                      /\ MismatchedPairs[j][3][2] = q[3][2]})
              /\ AttribPairs(q[2]) # AttribPairs(q[3])
                 => HasRecordAt(result, "Attrib diff at", q[1])
              /\ ChildrenCompared(result, q[1], q[2], q[3])
     /\ (docA[2] # docB[2] /\ Range(docA[3]) # Range(docB[3]))
        => <<"Attrib diff at", <<"/">> \o docA[2],
             AttributesText(docA), AttributesText(docB)>> \in Range(result.out)

XmlWhiteSpace == {" ", "\t", "\n", "\r"}

\* The text between the first and the last character that is not white space.
TextCore(s) ==
  LET inked == {i \in 1..Len(s) : s[i] \notin XmlWhiteSpace}
  IN  IF inked = {} THEN <<>>
      ELSE SubSeq(s, CHOOSE i \in inked : \A j \in inked : i <= j,
                     CHOOSE i \in inked : \A j \in inked : j <= i)

\* A DOM without its white space: no text node of white space only, every
\* other text node without its leading and trailing white space.
RECURSIVE WithoutWhiteSpace(_)
WithoutWhiteSpace(node) ==
  IF Kind(node) = "text" THEN TextNode(TextCore(node[2]))
  ELSE IF Kind(node) # "element" THEN node
  ELSE Element(node[2], node[3],
               SelectSeq([i \in 1..Len(node[4]) |-> WithoutWhiteSpace(node[4][i])],
                         LAMBDA n : n # TextNode(<<>>)))

\* C24 (white space in XML text): two documents that differ only in text
\* nodes of white space only, or in the leading and trailing white space of
\* text, compare with an empty diff, for both values of orderSensitive.
C24_WhiteSpaceIrrelevant ==
  (/\ Done /\ kind = "xml"
   /\ WellFormed(docA) /\ WellFormed(docB)
   /\ WithoutWhiteSpace(docA) = WithoutWhiteSpace(docB))
  => result = Returned(<<>>)

\* <r>\n<a/>\n</r> against <r><a/></r>, and <r> t\n</r> against <r>t</r>, are
\* both compared; here the first pair, children kept in document order.
C24_Witness ==
  /\ Done /\ kind = "xml" /\ opts.orderSensitive
  /\ docA = Element(TagR, <<>>, <<TextNode(<<"\n">>), Element(TagA, <<>>, <<>>),
                                  TextNode(<<"\n">>)>>)
  /\ docB = Element(TagR, <<>>, <<Element(TagA, <<>>, <<>>)>>)
  /\ result = Returned(<<>>)

\* C25 (full mode is coarser than ordered mode): for two valid JSON texts,
\* if the compare in ordered mode returns the empty list, the compare in full
\* mode returns the empty list as well.
C25_FullCoarserThanOrdered ==
  (/\ Done /\ kind = "json" /\ opts.mode = "ordered"
   /\ WellFormed(docA) /\ WellFormed(docB)
   /\ result = Returned(<<>>))
  => jsonCompare(docA, docB, "full") = Returned(<<>>)

\* The ids of the nodes of the graph: the subtree of the node it starts from.
GraphIds == Range(collectNodes(gNodes, gRoot))

\* The parent of a node of the graph other than its root.
ParentOf(n) == CHOOSE p \in GraphIds : \E i \in 1..Len(gNodes[p].children) :
                                         gNodes[p].children[i].child = n

\* The proper ancestors of a node of the graph.
RECURSIVE AncestorsOf(_)
AncestorsOf(n) == IF n = gRoot THEN {} ELSE {ParentOf(n)} \cup AncestorsOf(ParentOf(n))

NoDuplicates(s) == Cardinality(Range(s)) = Len(s)

\* C26 (visibility in the graph view): after renderGraph and after every
\* click, expandAll and collapseAll, the nodes drawn are the root and the
\* nodes whose proper ancestors are all expanded, each once; the edges drawn
\* are the edges from the parent into each drawn node but the root, each
\* once, one fewer than the nodes.  After renderGraph and after collapseAll
\* only the root is drawn, after expandAll every node.  A click is on a drawn
\* node with children and changes the membership of that node in the
\* expanded set and of no other node.
C26_GraphVisibility ==
  gPc = "rendered" =>
    /\ Range(gDrawnNodes) = {n \in GraphIds : AncestorsOf(n) \subseteq gExpanded}
    /\ NoDuplicates(gDrawnNodes)
    /\ Range(gDrawnEdges)
         = {<<ParentOf(n), n, (CHOOSE e \in Range(gNodes[ParentOf(n)].children) :
                                 e.child = n).edge>> :
              n \in Range(gDrawnNodes) \ {gRoot}}
    /\ NoDuplicates(gDrawnEdges)
    /\ Len(gDrawnEdges) = Len(gDrawnNodes) - 1
    /\ gOp[1] \in {"renderGraph", "collapseAll"} => gDrawnNodes = <<gRoot>>
    /\ gOp[1] = "expandAll" => Range(gDrawnNodes) = GraphIds
    /\ gOp[1] = "click" =>
         /\ gNodes[gOp[2]].children # <<>>
         /\ AncestorsOf(gOp[2]) \subseteq gBefore
         /\ (gOp[2] \in gExpanded) # (gOp[2] \in gBefore)
         /\ gExpanded \ {gOp[2]} = gBefore \ {gOp[2]}

\* A collapsed root above an expanded child: the child was expanded, then the
\* root was clicked, and the child is still in the expanded set while only
\* the root is drawn.
C26_Witness ==
  /\ gPc = "rendered"
  /\ gOp = <<"click", gRoot>>
  /\ gRoot \notin gExpanded
  /\ gExpanded # {}
  /\ gDrawnNodes = <<gRoot>>
  /\ gDrawnEdges = <<>>

\* A node in the expanded state: no 'collapsed' class, the toggle shows "-",
\* the summary is hidden.
LooksExpanded(n) == n.container /\ ~n.collapsed /\ n.toggle = "-" /\ n.summary = "none"

\* The child nodes and the closing bracket of a node have been built.
ChildrenBuilt(n) ==
  /\ n.built /\ n.closing
  /\ ChildPaths(tDom, n.path)
       = {Append(n.path, i) : i \in 1..Len(ChildValues(ValueAt(tValue, n.path)))}

\* C27 (tree view): after renderTree and after every toggle click, expandAll
\* and collapseAll, every array or object node in the expanded state has its
\* child nodes and its closing bracket built, the root node right after
\* renderTree included.
C27_ExpandedNodesAreBuilt ==
  tPc = "rendered" => \A n \in tDom : LooksExpanded(n) => ChildrenBuilt(n)

\* sliceImageFile has resolved or rejected.
Settled == sPc \in {"resolved", "rejected"}

\* C28 (release of the decoded image): once loadImageFromFile has succeeded,
\* img.destroy() has been called exactly once when sliceImageFile resolves or
\* rejects: on the normal return, on invalid dimensions, on an image too
\* small for square slices, and when toBlob fails inside the loop.
C28_DestroyedExactlyOnce ==
  (Settled /\ sImage # NoImage) => sDestroyed = 1

\* The sum of the widths of the slices.
RECURSIVE SumWidths(_)
SumWidths(rs) == IF rs = <<>> THEN 0 ELSE Head(rs).sw + SumWidths(Tail(rs))

\* C29 (slicing partitions the width): a call that resolves returns k slices
\* (k the count coerced to max(1, floor(k))) named part1..partk.  Without
\* square, slice i (from 0) starts at i*floor(w/k) and spans the full height,
\* the first k-1 are floor(w/k) wide and the last w - (k-1)*floor(w/k): each
\* starts where the one before ends, the widths sum to w, and each is at
\* least 1 wide when k <= w.  With square, every tile has the side
\* min(h, floor(w/k)) and lies inside the image.
C29_SlicesPartitionWidth ==
  sPc = "resolved" =>
    LET w == sImage.width
        h == sImage.height
        k == IF sKRaw.tag = "num" /\ sKRaw.n >= sKRaw.d THEN sKRaw.n \div sKRaw.d ELSE 1
        q == w \div k
    IN  /\ w >= 1 /\ Len(sResults) = k
        /\ \A j \in 1..k : sResults[j].part = j
        /\ ~sSquare =>
             /\ \A j \in 1..k :
                  /\ sResults[j].sx = (j - 1) * q
                  /\ sResults[j].sy = 0 /\ sResults[j].sh = h
                  /\ sResults[j].sw = IF j < k THEN q ELSE w - (k - 1) * q
                  /\ j < k => sResults[j + 1].sx = sResults[j].sx + sResults[j].sw
                  /\ k <= w => sResults[j].sw >= 1
             /\ sResults[k].sx + sResults[k].sw = w
             /\ SumWidths(sResults) = w
        /\ sSquare =>
             LET side == IF h < q THEN h ELSE q
             IN  /\ side >= 1
                 /\ \A j \in 1..k :
                      /\ sResults[j].sw = side /\ sResults[j].sh = side
                      /\ sResults[j].sx >= 0 /\ sResults[j].sx + side <= w
                      /\ sResults[j].sy >= 0 /\ sResults[j].sy + side <= h
                      /\ j < k => sResults[j + 1].sx = sResults[j].sx + side

\* An image 5 wide cut into 2: the slices are 2 and 3 wide, at 0 and at 2.
C29_Witness ==
  /\ sPc = "resolved" /\ ~sSquare
  /\ sKRaw = KNumber(5, 2)
  /\ sImage = [width |-> 5, height |-> 3]
  /\ sResults = <<[part |-> 1, sx |-> 0, sy |-> 0, sw |-> 2, sh |-> 3],
                  [part |-> 2, sx |-> 2, sy |-> 0, sw |-> 3, sh |-> 3]>>

\* The WHERE columns of the call: the entries of whereColumns that are not
\* blank, or the single whereColumn.
WhereColumns ==
  IF qConfig.whereIsArray
  THEN {qConfig.whereColumns[i] : i \in {j \in 1..Len(qConfig.whereColumns) :
          \E p \in 1..Len(qConfig.whereColumns[j]) :
            qConfig.whereColumns[j][p] \notin XmlWhiteSpace}}
  ELSE {qConfig.whereColumn} \ {<<>>}

\* The cell of a record is absent, null or blank.
BlankCell(row, col) ==
  \/ ~HasOwn(row, col)
  \/ OwnValue(row, col) = Null
  \/ \A p \in 1..Len(OwnValue(row, col)[2]) : OwnValue(row, col)[2][p] \in XmlWhiteSpace

\* The column is assigned in the SET clause: as columnUpdateMap says, and by
\* default when it is not a WHERE column.
Assigned(col) ==
  IF HasOwn(qConfig.columnUpdateMap, col)
  THEN OwnValue(qConfig.columnUpdateMap, col) = Bool(TRUE)
  ELSE col \notin WhereColumns

\* The 1-based indices of the records that are to be skipped.
ToSkip ==
  {i \in 1..Len(qRecords) :
     \/ \E col \in WhereColumns : BlankCell(qRecords[i], col)
     \/ \A k \in Range(OwnKeys(qRecords[i])) : ~Assigned(k)}

\* The elements of a set of numbers in ascending order.
RECURSIVE Ascending(_)
Ascending(S) ==
  IF S = {} THEN <<>>
  ELSE LET m == CHOOSE x \in S : \A y \in S : x <= y
       IN  <<m>> \o Ascending(S \ {m})

\* `text` holds `part` from position p on.
HoldsAt(text, part, p) ==
  p + Len(part) - 1 <= Len(text) /\ SubSeq(text, p, p + Len(part) - 1) = part

Holds(text, part) == \E p \in 1..Len(text) : HoldsAt(text, part, p)

\* C30 (every record accounted for once): for a non-empty list of records, a
\* table name that is not blank and at least one WHERE column, the call
\* returns statements and skipped with statements.length + skipped.length =
\* records.length; skipped is the ascending list of the 1-based indices of
\* the records with an absent, null or blank cell in a WHERE column or with
\* no column to assign; the statements are those of the other records in
\* input order, each with the cells of its record in the WHERE clause (as
\* they are, or trimmed with trimValues), and a WHERE column is not assigned
\* in the SET clause unless columnUpdateMap says so.
C30_EveryRecordOnce ==
  (/\ qPc = "done"
   /\ qRecords # <<>>
   /\ \E p \in 1..Len(qConfig.tableName) : qConfig.tableName[p] \notin XmlWhiteSpace
   /\ WhereColumns # {})
  => /\ qResult.status = "ok"
     /\ Len(qResult.statements) + Len(qResult.skipped) = Len(qRecords)
     /\ qResult.skipped = Ascending(ToSkip)
     /\ LET kept == Ascending((1..Len(qRecords)) \ ToSkip)
        IN  \A j \in 1..Len(qResult.statements) :
              /\ j <= Len(kept)
              /\ \A col \in WhereColumns \cap Range(OwnKeys(qRecords[kept[j]])) :
                   /\ Holds(qResult.statements[j],
                            <<" ">> \o col \o <<" ", "=", " ">>
                              \o (IF getQuoteForColumn(qConfig, col) THEN <<"'">> ELSE <<>>)
                              \o (IF qConfig.trimValues
                                  THEN TextCore(OwnValue(qRecords[kept[j]], col)[2])
                                  ELSE OwnValue(qRecords[kept[j]], col)[2]))
                   /\ ~HasOwn(qConfig.columnUpdateMap, col)
                      => ~Holds(qResult.statements[j],
                                <<"S", "E", "T", " ">> \o col \o <<" ", "=">>)
                         /\ ~Holds(qResult.statements[j],
                                   <<",", " ">> \o col \o <<" ", "=">>)

============================================================================
